---- MODULE Spec2Model ----
(***************************************************************************)
(* Model of the admin portal's server functions (functions index) and the  *)
(* admin forms that write activities: the year-to-date calculators, the    *)
(* connected-users traversal, the access-list propagation of linkNewUser,  *)
(* unlinkUser and onConnectedUsersChange, the recipient rewrite of          *)
(* onAssetUpdate and the batched writes.                                   *)
(*                                                                         *)
(* Times are whole hours counted from the first instant of January 1 of    *)
(* the current calendar year (the forms round every activity time to the   *)
(* hour).                                                                  *)
(***************************************************************************)
EXTENDS Integers, Sequences, FiniteSets, TLC

VARIABLES
    users,          \* the users collection: client id -> client document
    activities,     \* the activities subcollections: a sequence of activity records
    auth,           \* the uids that have an authentication account
    pc,             \* position of the running server function
    outcome,        \* what the last call returned: "none", "ok" or a typed error code
    userQueue,      \* calculateTotalYTDForUser: userQueue
    processedUsers, \* calculateTotalYTDForUser: processedUsers
    totalYTD,       \* calculateTotalYTDForUser: totalYTD
    ytdQueries,     \* number of calculateYTDForUser queries issued per client in the traversal
    call,           \* the arguments of the running call
    ytdResult,      \* the value returned by the calculateYTD callable / calculateYTDForUser
    snap,           \* linkNewUser: existingData, the client document it read
    tasks,          \* the promises of the running function, one per connected user
    events,         \* document updates of the users collection not yet delivered to onUpdate
    change,         \* onConnectedUsersChange: the change it was invoked with
    hpc,            \* position of onConnectedUsersChange
    usersBefore,    \* the users collection when the running operation began
    assetChange,    \* onAssetUpdate: the asset document change it was invoked with
    activitiesBefore, \* the activities when the running operation began
    commits,        \* the write batches handed to batch.commit(), in order
    usersSnapshot,  \* scheduledYTDReset: usersSnapshot.docs.length, the number of users
    resetIndex,     \* scheduledYTDReset: how many users the loop has gone through
    operationsCount, \* scheduledYTDReset: operationsCount, the size of the open batch
    activityState,  \* admin activity form: the activity being entered
    clientState,    \* admin forms: the client the form is about (NoUser for null)
    isRecipientSameAsUser, \* admin activity form: the "same as the user" switch
    isLinked,       \* checkDocumentLinked / isUIDLinked: the isLinked of the reply
    general,        \* the assets/general document of each client: the cached YTD values
    tokens,         \* the FCM tokens of each client document
    notifications,  \* the notification records of all clients, in creation order
    pushes,         \* the push messages handed to messaging.send()
    clientForm,     \* admin client form: which form it is, its switches and its dialog
    clientWrites,   \* the clients handed to db.createUser() / db.updateClient()
    deleteClient    \* DeleteClient dialog: its user, the typed names, doNamesMatch, and
                    \* the ids handed to service.deleteUser()

dbVars == <<users, activities, auth>>
ytdVars == <<userQueue, processedUsers, totalYTD, ytdQueries, ytdResult>>
accVars == <<snap, tasks, events, change, hpc, usersBefore, isLinked>>
clientFormVars == <<clientForm, clientWrites, deleteClient>>
trigVars == <<general, tokens, notifications, pushes>>
formVars == <<activityState, clientState, isRecipientSameAsUser>>
batchVars == <<assetChange, activitiesBefore, commits, usersSnapshot, resetIndex,
               operationsCount>>
vars == <<users, activities, auth, pc, outcome, userQueue, processedUsers, totalYTD,
          ytdQueries, call, ytdResult, snap, tasks, events, change, hpc, usersBefore,
          assetChange, activitiesBefore, commits, usersSnapshot, resetIndex,
          operationsCount, activityState, clientState, isRecipientSameAsUser,
          isLinked, general, tokens, notifications, pushes, clientForm, clientWrites,
          deleteClient>>

-----------------------------------------------------------------------------
(* Bounds *)

\* longest connectedUsers list drawn for a client
MaxConnected == 2

\* most activities drawn for the client whose own YTD is computed
MaxActs == 2

-----------------------------------------------------------------------------
(* Data *)

\* ids of client documents; c3 is an id that has no client document
Cids == {"c1", "c2", "c3"}
MissingCid == "c3"

Uids == {"u1", "u2"}

RECURSIVE SeqsUpTo(_, _)
SeqsUpTo(S, n) ==
    IF n = 0 THEN {<<>>}
    ELSE LET shorter == SeqsUpTo(S, n - 1)
         IN  shorter \cup {Append(s, x) : s \in {t \in shorter : Len(t) = n - 1}, x \in S}

Range(s) == {s[i] : i \in 1..Len(s)}

RECURSIVE SumOver(_, _)
SumOver(f, S) ==
    IF S = {} THEN 0
    ELSE LET x == CHOOSE y \in S : TRUE IN f[x] + SumOver(f, S \ {x})

\* A client document (interface Client), the fields the server functions read or write.
\* exists = FALSE stands for "no document under this id".
NoDoc ==
    [exists |-> FALSE, uid |-> "", appEmail |-> "", email |-> "", name |-> "",
     connectedUsers |-> <<>>, uidGrantedAccess |-> <<>>]

NewDoc(fullName, connected) ==
    [exists |-> TRUE, uid |-> "", appEmail |-> "", email |-> "", name |-> fullName,
     connectedUsers |-> connected, uidGrantedAccess |-> <<>>]

\* An activity (interface Activity), the fields the server functions read or write.
Activity(owner, fund, type, time, amount, recipient) ==
    [owner |-> owner, fund |-> fund, type |-> type, time |-> time, amount |-> amount,
     recipient |-> recipient]

-----------------------------------------------------------------------------
(* calculateYTDForUser / calculateYTD *)

\* new Date(currentYear, 0, 1): the first instant of January 1
startOfYear == 0

\* new Date(currentYear, 11, 31): the midnight at which December 31 begins
endOfYear == 364 * 24

\* the last whole hour of December 31
lastHourOfYear == 365 * 24 - 1

\* the query of calculateYTDForUser: the indices of the activities it returns
YTDQuery(userCid) ==
    {i \in 1..Len(activities) :
        /\ activities[i].owner = userCid
        /\ activities[i].fund = "AGQ"
        /\ activities[i].type \in {"profit", "income"}
        /\ activities[i].time >= startOfYear
        /\ activities[i].time <= endOfYear}

calculateYTDForUser(userCid) ==
    SumOver([i \in 1..Len(activities) |-> activities[i].amount], YTDQuery(userCid))

\* the calculateYTD callable: argument checks, then the same query and sum
calculateYTD(cid, usersCollectionID) ==
    IF cid = "" \/ usersCollectionID = "" THEN [code |-> "invalid-argument", ytd |-> 0]
    ELSE LET snapshot ==
                 {i \in 1..Len(activities) :
                     /\ activities[i].owner = cid
                     /\ activities[i].fund = "AGQ"
                     /\ activities[i].type \in {"profit", "income"}
                     /\ activities[i].time >= startOfYear
                     /\ activities[i].time <= endOfYear}
         IN  [code |-> "ok",
              ytd |-> SumOver([i \in 1..Len(activities) |-> activities[i].amount], snapshot)]

NoCall == [fn |-> "none", cid |-> "", uid |-> "", email |-> "", coll |-> "", authed |-> FALSE]

NoQueries == [c \in Cids |-> 0]

NoChange == [cid |-> "", before |-> <<>>, after |-> <<>>, uid |-> ""]

NoAssetChange == [userId |-> "", assetId |-> "", before |-> <<>>, after |-> <<>>]

\* no client form is shown
NoForm ==
    [kind |-> "none", useCompanyName |-> FALSE, showErrorModal |-> FALSE,
     invalidInputFields |-> <<>>, override |-> FALSE]

\* clientState = null
NoUser ==
    [cid |-> "", firstName |-> <<>>, lastName |-> <<>>, companyName |-> <<>>,
     activities |-> <<>>]

\* no DeleteClient dialog is shown
NoDeleteClient ==
    [showModal |-> FALSE, user |-> NoUser, firstName |-> <<>>, lastName |-> <<>>,
     doNamesMatch |-> FALSE, deleted |-> <<>>]

\* a call of the helper calculateYTDForUser
CallCalculateYTDForUser(cid) ==
    /\ pc = "idle"
    /\ call' = [NoCall EXCEPT !.fn = "calculateYTDForUser", !.cid = cid, !.coll = "users"]
    /\ ytdResult' = calculateYTDForUser(cid)
    /\ outcome' = "ok"
    /\ pc' = "done"
    /\ UNCHANGED <<dbVars, accVars, batchVars, formVars, clientFormVars, trigVars, userQueue, processedUsers, totalYTD, ytdQueries>>

\* a call of the calculateYTD callable
CallCalculateYTD(cid, coll) ==
    /\ pc = "idle"
    /\ call' = [NoCall EXCEPT !.fn = "calculateYTD", !.cid = cid, !.coll = coll]
    /\ ytdResult' = calculateYTD(cid, coll).ytd
    /\ outcome' = calculateYTD(cid, coll).code
    /\ pc' = "done"
    /\ UNCHANGED <<dbVars, accVars, batchVars, formVars, clientFormVars, trigVars, userQueue, processedUsers, totalYTD, ytdQueries>>

-----------------------------------------------------------------------------
(* calculateTotalYTDForUser / calculateTotalYTD *)

\* entry of the helper: userQueue = [cid], processedUsers empty, totalYTD = 0
StartCalculateTotalYTDForUser(cid) ==
    /\ pc = "idle"
    /\ call' = [NoCall EXCEPT !.fn = "calculateTotalYTDForUser", !.cid = cid, !.coll = "users"]
    /\ userQueue' = <<cid>>
    /\ processedUsers' = {}
    /\ totalYTD' = 0
    /\ ytdQueries' = NoQueries
    /\ pc' = "traverse"
    /\ UNCHANGED <<dbVars, accVars, batchVars, formVars, clientFormVars, trigVars, outcome, ytdResult>>

\* entry of the callable: argument checks, then the same initialisation
StartCalculateTotalYTD(cid, coll) ==
    /\ pc = "idle"
    /\ call' = [NoCall EXCEPT !.fn = "calculateTotalYTD", !.cid = cid, !.coll = coll]
    /\ IF cid = "" \/ coll = ""
       THEN /\ outcome' = "invalid-argument"
            /\ pc' = "done"
            /\ UNCHANGED <<userQueue, processedUsers, totalYTD, ytdQueries>>
       ELSE /\ userQueue' = <<cid>>
            /\ processedUsers' = {}
            /\ totalYTD' = 0
            /\ ytdQueries' = NoQueries
            /\ pc' = "traverse"
            /\ UNCHANGED outcome
    /\ UNCHANGED <<dbVars, accVars, batchVars, formVars, clientFormVars, trigVars, ytdResult>>

\* TraverseIteration with the sum taken before the visited check
TraverseIteration_SumEveryDequeued ==
    LET currentUserCid == Head(userQueue)
        rest == Tail(userQueue)
    IN  IF currentUserCid # "" /\ currentUserCid \notin processedUsers
        THEN /\ processedUsers' = processedUsers \cup {currentUserCid}
             /\ ytdQueries' = [ytdQueries EXCEPT ![currentUserCid] = @ + 1]
             /\ totalYTD' = totalYTD + calculateYTDForUser(currentUserCid)
             /\ userQueue' = IF users[currentUserCid].exists
                             THEN rest \o users[currentUserCid].connectedUsers
                             ELSE rest
        ELSE /\ userQueue' = rest
             /\ totalYTD' = totalYTD + calculateYTDForUser(currentUserCid)
             /\ UNCHANGED <<processedUsers, ytdQueries>>

\* TraverseIteration without processedUsers.add
TraverseIteration_NoAdd ==
    LET currentUserCid == Head(userQueue)
        rest == Tail(userQueue)
    IN  IF currentUserCid # "" /\ currentUserCid \notin processedUsers
        THEN /\ ytdQueries' = [ytdQueries EXCEPT ![currentUserCid] = @ + 1]
             /\ totalYTD' = totalYTD + calculateYTDForUser(currentUserCid)
             /\ userQueue' = IF users[currentUserCid].exists
                             THEN rest \o users[currentUserCid].connectedUsers
                             ELSE rest
             /\ UNCHANGED processedUsers
        ELSE /\ userQueue' = rest
             /\ UNCHANGED <<processedUsers, ytdQueries, totalYTD>>

\* one iteration of `while (userQueue.length > 0)`
TraverseIteration ==
    LET currentUserCid == Head(userQueue)
        rest == Tail(userQueue)
    IN  IF currentUserCid # "" /\ currentUserCid \notin processedUsers
        THEN /\ processedUsers' = processedUsers \cup {currentUserCid}
             /\ ytdQueries' = [ytdQueries EXCEPT ![currentUserCid] = @ + 1]
             /\ totalYTD' = totalYTD + calculateYTDForUser(currentUserCid)
             /\ userQueue' = IF users[currentUserCid].exists
                             THEN rest \o users[currentUserCid].connectedUsers
                             ELSE rest
        ELSE /\ userQueue' = rest
             /\ UNCHANGED <<processedUsers, ytdQueries, totalYTD>>

\* the loop of the helper calculateTotalYTDForUser
calculateTotalYTDForUser_Loop ==
    /\ pc = "traverse"
    /\ call.fn = "calculateTotalYTDForUser"
    /\ userQueue # <<>>
    /\ TraverseIteration
    /\ UNCHANGED <<dbVars, accVars, batchVars, formVars, clientFormVars, trigVars, pc, outcome, call, ytdResult>>

\* the loop of the calculateTotalYTD callable (the same code, written out a second time)
calculateTotalYTD_Loop ==
    /\ pc = "traverse"
    /\ call.fn = "calculateTotalYTD"
    /\ userQueue # <<>>
    /\ TraverseIteration
    /\ UNCHANGED <<dbVars, accVars, batchVars, formVars, clientFormVars, trigVars, pc, outcome, call, ytdResult>>

\* the queue is empty: return totalYTD
TraverseReturn ==
    /\ pc = "traverse"
    /\ userQueue = <<>>
    /\ ytdResult' = totalYTD
    /\ outcome' = "ok"
    /\ pc' = "done"
    /\ UNCHANGED <<dbVars, accVars, batchVars, formVars, clientFormVars, trigVars, userQueue, processedUsers, totalYTD, ytdQueries, call>>

-----------------------------------------------------------------------------
(* Specification of the own-YTD calculators: one client, any activities *)

\* activity times drawn: the hour before the year, its first hour, the hour before
\* December 31, the first hour, noon and the last hour of December 31, the next year
TimePoints ==
    {startOfYear - 1, startOfYear, endOfYear - 1, endOfYear, endOfYear + 12,
     lastHourOfYear, lastHourOfYear + 1}

\* the i-th activity has amount 2^(i-1), so that a sum names the activities counted
RECURSIVE Pow2(_)
Pow2(n) == IF n = 0 THEN 1 ELSE 2 * Pow2(n - 1)

ActivityChoices(i) ==
    {Activity(o, f, t, tm, Pow2(i - 1), "") :
        o \in {"c1", "c2"}, f \in {"AGQ", "AK1"},
        t \in {"profit", "income", "deposit"}, tm \in TimePoints}

\* the activity lists of exactly n activities, then of at most n
RECURSIVE ActivityListsOfLen(_)
ActivityListsOfLen(n) ==
    IF n = 0 THEN {<<>>}
    ELSE {Append(s, a) : s \in ActivityListsOfLen(n - 1), a \in ActivityChoices(n)}

ActivityLists(n) == UNION {ActivityListsOfLen(k) : k \in 0..n}

InitIdle ==
    /\ auth = {}
    /\ pc = "idle"
    /\ outcome = "none"
    /\ userQueue = <<>>
    /\ processedUsers = {}
    /\ totalYTD = 0
    /\ ytdQueries = NoQueries
    /\ call = NoCall
    /\ ytdResult = 0
    /\ snap = NoDoc
    /\ tasks = <<>>
    /\ events = <<>>
    /\ change = NoChange
    /\ hpc = "idle"
    /\ usersBefore = users
    /\ assetChange = NoAssetChange
    /\ activitiesBefore = activities
    /\ commits = <<>>
    /\ usersSnapshot = 0
    /\ resetIndex = 0
    /\ operationsCount = 0
    /\ activityState = [recipient |-> <<>>, parentDocId |-> "", amount |-> 0]
    /\ clientState = NoUser
    /\ isRecipientSameAsUser = TRUE
    /\ isLinked = FALSE
    /\ notifications = <<>>
    /\ pushes = <<>>
    /\ clientForm = NoForm
    /\ clientWrites = <<>>
    /\ deleteClient = NoDeleteClient

\* a field an assets/general document does not have
NoField == -1

\* an assets/general document: the cached ytd and totalYTD, and the field totalYtd
GeneralDoc(ytd, total) ==
    [exists |-> TRUE, ytd |-> ytd, totalYTD |-> total, totalYtd |-> NoField]

NoGeneralDoc == [exists |-> FALSE, ytd |-> NoField, totalYTD |-> NoField, totalYtd |-> NoField]

\* every client has an assets/general document with both cached values 0, and no
\* device registered for push messages
InitCaches ==
    /\ general = [c \in Cids |-> IF users[c].exists THEN GeneralDoc(0, 0) ELSE NoGeneralDoc]
    /\ tokens = [c \in Cids |-> <<>>]

InitOwnYTD ==
    /\ users = [c \in Cids |-> IF c = MissingCid THEN NoDoc ELSE NewDoc("John Doe", <<>>)]
    /\ activities \in ActivityLists(MaxActs)
    /\ InitIdle
    /\ InitCaches

NextOwnYTD ==
    \/ \E cid \in {"c1", "c2"} : CallCalculateYTDForUser(cid)
    \/ \E cid \in {"c1", ""}, coll \in {"users", ""} : CallCalculateYTD(cid, coll)

SpecOwnYTD == InitOwnYTD /\ [][NextOwnYTD]_vars

\* the activities of a client that qualify for the current calendar year: fund AGQ,
\* type profit or income, time from the first hour of January 1 to the last of December 31
QualifyingThisYear(cid) ==
    {i \in 1..Len(activities) :
        /\ activities[i].owner = cid
        /\ activities[i].fund = "AGQ"
        /\ activities[i].type \in {"profit", "income"}
        /\ activities[i].time >= startOfYear
        /\ activities[i].time <= lastHourOfYear}

\* C3: a client's own YTD, as calculateYTDForUser and the calculateYTD callable return
\* it, is the sum of the amounts of exactly the client's AGQ profit/income activities
\* dated anywhere in the current calendar year, December 31 included to its last instant.
C3_OwnYTDCoversWholeYear ==
    (pc = "done" /\ outcome = "ok" /\ call.fn \in {"calculateYTDForUser", "calculateYTD"})
        => ytdResult = SumOver([i \in 1..Len(activities) |-> activities[i].amount],
                               QualifyingThisYear(call.cid))

-----------------------------------------------------------------------------
(* Specification of the total-YTD traversal: any connected-users graph *)

ConnLists == SeqsUpTo(Cids, MaxConnected)

\* every client has one qualifying activity of its own distinct amount and one
\* activity that does not qualify; c3, which has no document, still has activities
TraversalActivities ==
    <<Activity("c1", "AGQ", "profit", startOfYear + 1, 1, ""),
      Activity("c2", "AGQ", "income", startOfYear + 2, 2, ""),
      Activity("c3", "AGQ", "profit", startOfYear + 3, 4, ""),
      Activity("c1", "AK1", "profit", startOfYear + 1, 8, ""),
      Activity("c2", "AGQ", "deposit", startOfYear + 1, 16, "")>>

InitTotalYTD ==
    /\ users \in {u \in [Cids -> {NoDoc} \cup {NewDoc("John Doe", l) : l \in ConnLists}] :
                     u[MissingCid] = NoDoc}
    /\ activities = TraversalActivities
    /\ InitIdle
    /\ InitCaches

NextTotalYTD ==
    \/ \E cid \in Cids : StartCalculateTotalYTDForUser(cid)
    \/ \E cid \in Cids \cup {""}, coll \in {"users", ""} : StartCalculateTotalYTD(cid, coll)
    \/ calculateTotalYTDForUser_Loop
    \/ calculateTotalYTD_Loop
    \/ TraverseReturn

\* an awaited query resolves, so the loop takes its next step
SpecTotalYTD == InitTotalYTD /\ [][NextTotalYTD]_vars /\ WF_vars(NextTotalYTD)


\* the clients reachable from a set of clients over connectedUsers
RECURSIVE ReachFrom(_)
ReachFrom(S) ==
    LET next == S \cup UNION {Range(users[c].connectedUsers) : c \in {d \in S : users[d].exists}}
    IN  IF next = S THEN S ELSE ReachFrom(next)

TraversalDone ==
    /\ pc = "done"
    /\ outcome = "ok"
    /\ call.fn \in {"calculateTotalYTDForUser", "calculateTotalYTD"}

\* C1: the total-YTD traversal returns the sum, over the distinct clients reachable
\* from the root (root included), of each client's own YTD, each counted once.
C1_TotalIsSumOverReachable ==
    TraversalDone
        => ytdResult = SumOver([c \in Cids |-> calculateYTDForUser(c)], ReachFrom({call.cid}))

\* a traversal that ended on a graph with a cycle, a duplicate entry, a self-link
\* and an id without document
C1_Witness ==
    /\ TraversalDone
    /\ call.cid = "c1"
    /\ users["c1"].connectedUsers = <<"c2", "c2">>
    /\ users["c2"].connectedUsers = <<"c1", "c3">>
    /\ ytdResult = 7

\* C2: the traversal terminates on every graph (the queue becomes empty and the
\* function returns), and no client's YTD query is issued twice in one traversal.
C2_TraversalTerminates ==
    /\ [](\A c \in Cids : ytdQueries[c] <= 1)
    /\ (pc = "traverse") ~> (pc = "done" /\ userQueue = <<>>)

\* a traversal that ended on a graph where the clients list each other and themselves
C2_Witness ==
    /\ TraversalDone
    /\ userQueue = <<>>
    /\ users["c1"].connectedUsers = <<"c1", "c2">>
    /\ users["c2"].connectedUsers = <<"c2", "c1">>
    /\ ytdQueries = [c \in Cids |-> IF c = "c3" THEN 0 ELSE 1]

-----------------------------------------------------------------------------
(* linkNewUser, unlinkUser, onConnectedUsersChange *)

\* the e-mail address of each authentication account
EmailOf == [u \in Uids |-> IF u = "u1" THEN "e1" ELSE "e2"]

\* the clients that sign up, are unlinked and have their connections edited
LinkedCids == {"c1"}

Includes(arr, x) == \E i \in 1..Len(arr) : arr[i] = x

\* arr.filter(keep)
Filter(arr, keep(_)) == SelectSeq(arr, keep)

\* what onUpdate is handed for a write of the client document cid
Change(cid, beforeData, afterData) ==
    [cid |-> cid, before |-> beforeData.connectedUsers, after |-> afterData.connectedUsers,
     uid |-> afterData.uid]

\* one promise of connectedUsers.map(async ...): it awaits get(), then update()
Task(kind, peer, uid) == [kind |-> kind, peer |-> peer, uid |-> uid, at |-> "get", arr |-> <<>>]

TasksFor(kind, list, uid) == [i \in 1..Len(list) |-> Task(kind, list[i], uid)]

AllTasksDone == \A i \in 1..Len(tasks) : tasks[i].at = "done"

\* the order in which the model runs promises that address different documents
CidOrder == <<"c1", "c2", "c3">>

Rank(c) == CHOOSE i \in 1..Len(CidOrder) : CidOrder[i] = c

\* Promises that address different documents read and write disjoint data, so their
\* steps commute: the model runs them document by document, in CidOrder, and lets
\* the promises that address the same document interleave in every way.
MayStep(i) ==
    \A j \in 1..Len(tasks) :
        Rank(tasks[j].peer) < Rank(tasks[i].peer) => tasks[j].at = "done"

\* no call, promise or trigger is under way
Idle ==
    /\ pc = "idle"
    /\ hpc = "idle"
    /\ tasks = <<>>
    /\ events = <<>>

\* linkNewUser up to `await userRef.get()`: the checks of context.auth and of the arguments
linkNewUser_Call(authed, email, cid, uid, coll) ==
    /\ Idle
    /\ call' = [fn |-> "linkNewUser", cid |-> cid, uid |-> uid, email |-> email,
                coll |-> coll, authed |-> authed]
    /\ usersBefore' = users
    /\ auth' = IF authed /\ uid # "" THEN auth \cup {uid} ELSE auth
    /\ IF ~authed
       THEN /\ outcome' = "unauthenticated"
            /\ pc' = "done"
            /\ UNCHANGED snap
       ELSE IF email = "" \/ cid = "" \/ uid = "" \/ coll = ""
       THEN /\ outcome' = "invalid-argument"
            /\ pc' = "done"
            /\ UNCHANGED snap
       ELSE /\ snap' = users[cid]
            /\ pc' = "linkGot"
            /\ outcome' = "none"
    /\ UNCHANGED <<users, activities, ytdVars, trigVars, batchVars, formVars, clientFormVars, isLinked, tasks, events, change, hpc>>

\* linkNewUser_Set without the check that the document has no uid yet
linkNewUser_Set_NoExistsCheck ==
    /\ pc = "linkGot"
    /\ IF ~snap.exists
       THEN /\ outcome' = "not-found"
            /\ pc' = "done"
            /\ UNCHANGED <<users, tasks, events>>
       ELSE LET updatedData == [snap EXCEPT !.uid = call.uid, !.email = call.email,
                                            !.appEmail = call.email]
            IN  /\ users' = [users EXCEPT ![call.cid] = updatedData]
                /\ events' = Append(events, Change(call.cid, users[call.cid], updatedData))
                /\ tasks' = TasksFor("link", snap.connectedUsers, call.uid)
                /\ pc' = "linkPeers"
                /\ UNCHANGED outcome
    /\ UNCHANGED <<activities, auth, ytdVars, trigVars, batchVars, formVars, clientFormVars, isLinked, call, snap, change, hpc, usersBefore>>

\* linkNewUser from the snapshot to `await userRef.set(updatedData)` and the start of
\* addUidToConnectedUsers
linkNewUser_Set ==
    /\ pc = "linkGot"
    /\ IF ~snap.exists
       THEN /\ outcome' = "not-found"
            /\ pc' = "done"
            /\ UNCHANGED <<users, tasks, events>>
       ELSE IF snap.uid # ""
       THEN /\ outcome' = "already-exists"
            /\ pc' = "done"
            /\ UNCHANGED <<users, tasks, events>>
       ELSE LET updatedData == [snap EXCEPT !.uid = call.uid, !.email = call.email,
                                            !.appEmail = call.email]
            IN  /\ users' = [users EXCEPT ![call.cid] = updatedData]
                /\ events' = Append(events, Change(call.cid, users[call.cid], updatedData))
                /\ tasks' = TasksFor("link", snap.connectedUsers, call.uid)
                /\ pc' = "linkPeers"
                /\ UNCHANGED outcome
    /\ UNCHANGED <<activities, auth, ytdVars, trigVars, batchVars, formVars, clientFormVars, isLinked, call, snap, change, hpc, usersBefore>>

\* addUidToConnectedUsers_Get that adds the uid only to an empty access list
addUidToConnectedUsers_Get_OnlyIfEmpty(i) ==
    /\ tasks[i].kind = "link"
    /\ tasks[i].at = "get"
    /\ MayStep(i)
    /\ LET connectedUserData == users[tasks[i].peer]
           uidGrantedAccess == connectedUserData.uidGrantedAccess
       IN  tasks' = [tasks EXCEPT ![i] =
                IF connectedUserData.exists /\ uidGrantedAccess = <<>>
                THEN [@ EXCEPT !.at = "update", !.arr = Append(uidGrantedAccess, tasks[i].uid)]
                ELSE [@ EXCEPT !.at = "done"]]
    /\ UNCHANGED <<dbVars, ytdVars, trigVars, batchVars, formVars, clientFormVars, isLinked, pc, outcome, call, snap, events, change, hpc, usersBefore>>

\* addUidToConnectedUsers, one promise up to `await connectedUserRef.get()` and the
\* decision taken on the snapshot
addUidToConnectedUsers_Get(i) ==
    /\ tasks[i].kind = "link"
    /\ tasks[i].at = "get"
    /\ MayStep(i)
    /\ LET connectedUserData == users[tasks[i].peer]
           uidGrantedAccess == connectedUserData.uidGrantedAccess
       IN  tasks' = [tasks EXCEPT ![i] =
                IF connectedUserData.exists /\ ~Includes(uidGrantedAccess, tasks[i].uid)
                THEN [@ EXCEPT !.at = "update", !.arr = Append(uidGrantedAccess, tasks[i].uid)]
                ELSE [@ EXCEPT !.at = "done"]]
    /\ UNCHANGED <<dbVars, ytdVars, trigVars, batchVars, formVars, clientFormVars, isLinked, pc, outcome, call, snap, events, change, hpc, usersBefore>>

\* addUidToConnectedUsers, `await connectedUserRef.update({ uidGrantedAccess })`
addUidToConnectedUsers_Update(i) ==
    /\ tasks[i].kind = "link"
    /\ tasks[i].at = "update"
    /\ LET peer == tasks[i].peer
           written == [users[peer] EXCEPT !.uidGrantedAccess = tasks[i].arr]
       IN  /\ users' = [users EXCEPT ![peer] = written]
           /\ events' = Append(events, Change(peer, users[peer], written))
    /\ tasks' = [tasks EXCEPT ![i].at = "done"]
    /\ UNCHANGED <<activities, auth, ytdVars, trigVars, batchVars, formVars, clientFormVars, isLinked, pc, outcome, call, snap, change, hpc, usersBefore>>

\* `await Promise.all(updatePromises)` resolves and linkNewUser returns
linkNewUser_Return ==
    /\ pc = "linkPeers"
    /\ AllTasksDone
    /\ tasks' = <<>>
    /\ outcome' = "ok"
    /\ pc' = "done"
    /\ UNCHANGED <<dbVars, ytdVars, trigVars, batchVars, formVars, clientFormVars, isLinked, call, snap, events, change, hpc, usersBefore>>

\* the unlinkUser callable
unlinkUser(uid, cid, coll) ==
    /\ Idle
    /\ call' = [NoCall EXCEPT !.fn = "unlinkUser", !.cid = cid, !.uid = uid, !.coll = coll]
    /\ usersBefore' = users
    /\ pc' = "done"
    /\ IF uid = "" \/ cid = "" \/ coll = ""
       THEN /\ outcome' = "invalid-argument"
            /\ UNCHANGED <<users, events, auth>>
       ELSE IF ~users[cid].exists
       THEN \* the not-found error is thrown inside the try block and caught by its catch
            /\ outcome' = "unknown"
            /\ UNCHANGED <<users, events, auth>>
       ELSE LET written == [users[cid] EXCEPT !.appEmail = "", !.uid = ""]
            IN  /\ users' = [users EXCEPT ![cid] = written]
                /\ events' = Append(events, Change(cid, users[cid], written))
                /\ IF uid \in auth
                   THEN /\ auth' = auth \ {uid}
                        /\ outcome' = "ok"
                   ELSE \* admin.auth().deleteUser(uid) rejects: there is no such account
                        /\ outcome' = "unknown"
                        /\ UNCHANGED auth
    /\ UNCHANGED <<activities, ytdVars, trigVars, batchVars, formVars, clientFormVars, isLinked, snap, tasks, change, hpc>>

\* the admin's client form saves the client with the connected clients selected
EditConnectedUsers(cid, list) ==
    /\ Idle
    /\ users[cid].exists
    /\ call' = [NoCall EXCEPT !.fn = "editClient", !.cid = cid]
    /\ usersBefore' = users
    /\ pc' = "done"
    /\ outcome' = "ok"
    /\ LET written == [users[cid] EXCEPT !.connectedUsers = list]
       IN  /\ users' = [users EXCEPT ![cid] = written]
           /\ events' = Append(events, Change(cid, users[cid], written))
    /\ UNCHANGED <<activities, auth, ytdVars, trigVars, batchVars, formVars, clientFormVars, isLinked, snap, tasks, change, hpc>>

\* onConnectedUsersChange_Start with a remove promise for every peer of the old list
onConnectedUsersChange_Start_EveryFormerPeer ==
    /\ events # <<>>
    /\ pc = "done"
    /\ hpc \in {"idle", "done"}
    /\ tasks = <<>>
    /\ LET e == Head(events)
           addedConnectedUsers == Filter(e.after, LAMBDA id : ~Includes(e.before, id))
       IN  /\ change' = e
           /\ events' = Tail(events)
           /\ IF e.before = e.after \/ e.uid = ""
              THEN /\ hpc' = "done"
                   /\ UNCHANGED tasks
              ELSE /\ hpc' = "run"
                   /\ tasks' = TasksFor("add", addedConnectedUsers, e.uid)
                                   \o TasksFor("remove", e.before, e.uid)
    /\ UNCHANGED <<dbVars, ytdVars, trigVars, batchVars, formVars, clientFormVars, isLinked, pc, outcome, call, snap, usersBefore>>

\* onConnectedUsersChange up to the start of its promises
onConnectedUsersChange_Start ==
    /\ events # <<>>
    /\ pc = "done"
    /\ hpc \in {"idle", "done"}
    /\ tasks = <<>>
    /\ LET e == Head(events)
           beforeConnectedUsers == e.before
           afterConnectedUsers == e.after
           addedConnectedUsers ==
               Filter(afterConnectedUsers, LAMBDA id : ~Includes(beforeConnectedUsers, id))
           removedConnectedUsers ==
               Filter(beforeConnectedUsers, LAMBDA id : ~Includes(afterConnectedUsers, id))
           currentUserUid == e.uid
       IN  /\ change' = e
           /\ events' = Tail(events)
           /\ IF beforeConnectedUsers = afterConnectedUsers \/ currentUserUid = ""
              THEN /\ hpc' = "done"
                   /\ UNCHANGED tasks
              ELSE /\ hpc' = "run"
                   /\ tasks' = TasksFor("add", addedConnectedUsers, currentUserUid)
                                   \o TasksFor("remove", removedConnectedUsers, currentUserUid)
    /\ UNCHANGED <<dbVars, ytdVars, trigVars, batchVars, formVars, clientFormVars, isLinked, pc, outcome, call, snap, usersBefore>>

\* an add promise up to `await connectedUserRef.get()` and the decision on the snapshot
onConnectedUsersChange_AddGet(i) ==
    /\ tasks[i].kind = "add"
    /\ tasks[i].at = "get"
    /\ MayStep(i)
    /\ LET connectedUserData == users[tasks[i].peer]
           uidGrantedAccess == connectedUserData.uidGrantedAccess
       IN  tasks' = [tasks EXCEPT ![i] =
                IF connectedUserData.exists /\ ~Includes(uidGrantedAccess, tasks[i].uid)
                THEN [@ EXCEPT !.at = "update", !.arr = Append(uidGrantedAccess, tasks[i].uid)]
                ELSE [@ EXCEPT !.at = "done"]]
    /\ UNCHANGED <<dbVars, ytdVars, trigVars, batchVars, formVars, clientFormVars, isLinked, pc, outcome, call, snap, events, change, hpc, usersBefore>>

\* onConnectedUsersChange_RemoveGet whose filter keeps the uid it should drop
onConnectedUsersChange_RemoveGet_KeepsUid(i) ==
    /\ tasks[i].kind = "remove"
    /\ tasks[i].at = "get"
    /\ MayStep(i)
    /\ LET connectedUserData == users[tasks[i].peer]
           uidGrantedAccess == connectedUserData.uidGrantedAccess
       IN  tasks' = [tasks EXCEPT ![i] =
                IF connectedUserData.exists /\ Includes(uidGrantedAccess, tasks[i].uid)
                THEN [@ EXCEPT !.at = "update",
                               !.arr = Filter(uidGrantedAccess, LAMBDA uid : uid = tasks[i].uid)]
                ELSE [@ EXCEPT !.at = "done"]]
    /\ UNCHANGED <<dbVars, ytdVars, trigVars, batchVars, formVars, clientFormVars, isLinked, pc, outcome, call, snap, events, change, hpc, usersBefore>>

\* a remove promise up to `await connectedUserRef.get()` and the decision on the snapshot
onConnectedUsersChange_RemoveGet(i) ==
    /\ tasks[i].kind = "remove"
    /\ tasks[i].at = "get"
    /\ MayStep(i)
    /\ LET connectedUserData == users[tasks[i].peer]
           uidGrantedAccess == connectedUserData.uidGrantedAccess
       IN  tasks' = [tasks EXCEPT ![i] =
                IF connectedUserData.exists /\ Includes(uidGrantedAccess, tasks[i].uid)
                THEN [@ EXCEPT !.at = "update",
                               !.arr = Filter(uidGrantedAccess, LAMBDA uid : uid # tasks[i].uid)]
                ELSE [@ EXCEPT !.at = "done"]]
    /\ UNCHANGED <<dbVars, ytdVars, trigVars, batchVars, formVars, clientFormVars, isLinked, pc, outcome, call, snap, events, change, hpc, usersBefore>>

\* `await connectedUserRef.update({ uidGrantedAccess })` of an add or a remove promise
onConnectedUsersChange_Update(i) ==
    /\ tasks[i].kind \in {"add", "remove"}
    /\ tasks[i].at = "update"
    /\ LET peer == tasks[i].peer
           written == [users[peer] EXCEPT !.uidGrantedAccess = tasks[i].arr]
       IN  /\ users' = [users EXCEPT ![peer] = written]
           /\ events' = Append(events, Change(peer, users[peer], written))
    /\ tasks' = [tasks EXCEPT ![i].at = "done"]
    /\ UNCHANGED <<activities, auth, ytdVars, trigVars, batchVars, formVars, clientFormVars, isLinked, pc, outcome, call, snap, change, hpc, usersBefore>>

\* `await Promise.all([...addPromises, ...removePromises])` resolves: return null
onConnectedUsersChange_Return ==
    /\ hpc = "run"
    /\ AllTasksDone
    /\ tasks' = <<>>
    /\ hpc' = "done"
    /\ UNCHANGED <<dbVars, ytdVars, trigVars, batchVars, formVars, clientFormVars, isLinked, pc, outcome, call, snap, events, change, usersBefore>>

\* the call has returned and every trigger it caused has ended: the system is idle
\* again, and the record of the operation (call, usersBefore, change) is dropped
Settle ==
    /\ pc = "done"
    /\ hpc \in {"idle", "done"}
    /\ tasks = <<>>
    /\ events = <<>>
    /\ pc' = "idle"
    /\ hpc' = "idle"
    /\ outcome' = "none"
    /\ call' = NoCall
    /\ snap' = NoDoc
    /\ change' = NoChange
    /\ usersBefore' = users
    /\ UNCHANGED <<dbVars, ytdVars, trigVars, batchVars, formVars, clientFormVars, isLinked, tasks, events>>

-----------------------------------------------------------------------------
(* Specification of the access lists: the operations run one at a time, each with
   the triggers it causes; the promises of one function interleave freely *)

InitAccess ==
    /\ users = [c \in Cids |-> IF c = MissingCid THEN NoDoc ELSE NewDoc("John Doe", <<>>)]
    /\ activities = <<>>
    /\ InitIdle
    /\ InitCaches

\* the arguments linkNewUser is called with: every complete call, and the calls that
\* lack authentication or one argument
LinkArgs ==
    {[authed |-> TRUE, email |-> EmailOf[u], cid |-> c, uid |-> u, coll |-> "users"] :
        c \in LinkedCids \cup {MissingCid}, u \in Uids}
    \cup {[authed |-> FALSE, email |-> e, cid |-> "c1", uid |-> "u1", coll |-> "users"] :
        e \in {"e1", ""}}
    \cup {[authed |-> TRUE, email |-> "", cid |-> "c1", uid |-> "u1", coll |-> "users"],
          [authed |-> TRUE, email |-> "e1", cid |-> "", uid |-> "u1", coll |-> "users"],
          [authed |-> TRUE, email |-> "e1", cid |-> "c1", uid |-> "", coll |-> "users"],
          [authed |-> TRUE, email |-> "e1", cid |-> "c1", uid |-> "u1", coll |-> ""]}

\* the arguments unlinkUser is called with
UnlinkArgs ==
    {[uid |-> u, cid |-> c, coll |-> "users"] : u \in Uids, c \in LinkedCids \cup {MissingCid}}
    \cup {[uid |-> "", cid |-> "c1", coll |-> "users"],
          [uid |-> "u1", cid |-> "", coll |-> "users"],
          [uid |-> "u1", cid |-> "c1", coll |-> ""]}

NextAccess ==
    \/ \E a \in LinkArgs : linkNewUser_Call(a.authed, a.email, a.cid, a.uid, a.coll)
    \/ linkNewUser_Set
    \/ \E i \in 1..Len(tasks) : addUidToConnectedUsers_Get(i)
    \/ \E i \in 1..Len(tasks) : addUidToConnectedUsers_Update(i)
    \/ linkNewUser_Return
    \/ \E a \in UnlinkArgs : unlinkUser(a.uid, a.cid, a.coll)
    \/ \E cid \in LinkedCids, list \in ConnLists : EditConnectedUsers(cid, list)
    \/ onConnectedUsersChange_Start
    \/ \E i \in 1..Len(tasks) : onConnectedUsersChange_AddGet(i)
    \/ \E i \in 1..Len(tasks) : onConnectedUsersChange_RemoveGet(i)
    \/ \E i \in 1..Len(tasks) : onConnectedUsersChange_Update(i)
    \/ onConnectedUsersChange_Return
    \/ Settle

SpecAccess == InitAccess /\ [][NextAccess]_vars

\* onConnectedUsersChange has just returned from a change of the list of a linked client
ChangeHandled ==
    /\ hpc = "done"
    /\ change.uid # ""
    /\ change.before # change.after

\* C4: when onConnectedUsersChange has run to completion for a linked client (uid u)
\* whose connectedUsers changed, u is in the uidGrantedAccess of every added peer that
\* has a document and in that of no removed peer that has a document.
C4_PeersFollowChange ==
    ChangeHandled =>
        /\ \A p \in Range(change.after) \ Range(change.before) :
               users[p].exists => Includes(users[p].uidGrantedAccess, change.uid)
        /\ \A p \in Range(change.before) \ Range(change.after) :
               users[p].exists => ~Includes(users[p].uidGrantedAccess, change.uid)

\* the handler has added u1 to c2 (listed twice) and removed it from c1 itself,
\* skipping c3, which has no document
C4_Witness ==
    /\ ChangeHandled
    /\ change.uid = "u1"
    /\ change.before = <<"c1", "c3">>
    /\ change.after = <<"c2", "c2">>
    /\ usersBefore["c1"].uidGrantedAccess = <<"u1">>
    /\ users["c1"].uidGrantedAccess = <<>>
    /\ users["c2"].uidGrantedAccess = <<"u1">>

\* unlinkUser has returned success and every trigger it caused has ended
UnlinkDone ==
    /\ call.fn = "unlinkUser"
    /\ pc = "done"
    /\ outcome = "ok"
    /\ events = <<>>
    /\ tasks = <<>>
    /\ hpc # "run"

\* C5: after unlinkUser succeeds for a client whose uid was u, and its triggers have
\* ended, u is in the uidGrantedAccess of none of the client's connected peers.
C5_UnlinkRevokesAccess ==
    UnlinkDone =>
        \A p \in Range(usersBefore[call.cid].connectedUsers) :
            usersBefore[call.cid].uid # ""
                => ~Includes(users[p].uidGrantedAccess, usersBefore[call.cid].uid)

LinkDone ==
    /\ call.fn = "linkNewUser"
    /\ pc = "done"
    /\ outcome = "ok"

\* uid is in the uidGrantedAccess of every connected client of cid that has a document
PeersGrantAccess ==
    \A p \in Range(users[call.cid].connectedUsers) :
        users[p].exists => Includes(users[p].uidGrantedAccess, call.uid)

\* C6, as claimed: after linkNewUser succeeds the client document has uid and appEmail
\* set and every other field as before, and uid is in the uidGrantedAccess of every
\* connected client that has a document.
C6_LinkChangesOnlyUidAndAppEmail ==
    LinkDone =>
        /\ users[call.cid] =
               [usersBefore[call.cid] EXCEPT !.uid = call.uid, !.appEmail = call.email]
        /\ PeersGrantAccess

\* C6, amended: after linkNewUser succeeds the client document has uid set, appEmail
\* and also email set to the e-mail, and every other field as before, except that its
\* own uidGrantedAccess gains uid when the client lists itself in connectedUsers; and
\* uid is in the uidGrantedAccess of every connected client that has a document.
C6_LinkSetsUidAndBothEmails ==
    LinkDone =>
        /\ users[call.cid] =
               [usersBefore[call.cid] EXCEPT
                   !.uid = call.uid, !.appEmail = call.email, !.email = call.email,
                   !.uidGrantedAccess =
                       IF Includes(usersBefore[call.cid].connectedUsers, call.cid)
                          /\ ~Includes(@, call.uid)
                       THEN Append(@, call.uid) ELSE @]
        /\ PeersGrantAccess

\* a second sign-up of c1, under another account, has reached c2 (listed twice) and
\* c1 itself, which both still held the first uid
C6_Witness ==
    /\ LinkDone
    /\ call.cid = "c1"
    /\ call.uid = "u2"
    /\ usersBefore["c1"].email = "e1"
    /\ users["c1"].email = "e2"
    /\ users["c1"].connectedUsers = <<"c2", "c1">>
    /\ users["c1"].uidGrantedAccess = <<"u1", "u2">>
    /\ users["c2"].uidGrantedAccess = <<"u1", "u2">>

ArgumentMissing == call.email = "" \/ call.cid = "" \/ call.uid = "" \/ call.coll = ""

\* C10: linkNewUser ends with the typed error of the case (unauthenticated;
\* invalid-argument for a missing email, cid, uid or usersCollectionID; not-found when
\* cid has no document; already-exists when the document has a uid), and whenever it
\* ends with an error no client document has changed.
C10_LinkFailsTypedAndWritesNothing ==
    (call.fn = "linkNewUser" /\ pc = "done") =>
        /\ ~call.authed => outcome = "unauthenticated"
        /\ (call.authed /\ ArgumentMissing) => outcome = "invalid-argument"
        /\ (call.authed /\ ~ArgumentMissing /\ ~usersBefore[call.cid].exists)
               => outcome = "not-found"
        /\ (call.authed /\ ~ArgumentMissing /\ usersBefore[call.cid].exists
              /\ usersBefore[call.cid].uid # "") => outcome = "already-exists"
        /\ outcome # "ok" => users = usersBefore

\* a sign-up for a client that is linked already, with connected clients, was refused
C10_Witness ==
    /\ call.fn = "linkNewUser"
    /\ pc = "done"
    /\ outcome = "already-exists"
    /\ call.uid = "u2"
    /\ users["c1"].uid = "u1"
    /\ users["c1"].connectedUsers = <<"c2", "c1">>
    /\ users["c2"].uidGrantedAccess = <<"u1">>

-----------------------------------------------------------------------------
(* Write batches: onAssetUpdate, scheduledYTDReset *)

\* const maxBatchSize = 500; // Firestore batch limit
maxBatchSize == 500

\* batch.update(doc.ref, {...}): one queued operation
Op(doc, write) == [doc |-> doc, write |-> write]

\* batch.commit() of the operations first .. first + size - 1 of the function's queue.
\* The store applies a batch of at most maxBatchSize operations and rejects a larger one
\* as a whole.
Commit(by, first, size) ==
    [by |-> by, first |-> first, size |-> size, accepted |-> size <= maxBatchSize]

\* one asset entry of an assets document: ({ key, ...value }), the fields read
Asset(index, displayTitle) == [index |-> index, displayTitle |-> displayTitle]

\* afterAssetsByIndex.get(index) (indexes are unique within a document)
HasIndex(assets, index) == \E k \in 1..Len(assets) : assets[k].index = index
AssetAt(assets, index) == assets[CHOOSE k \in 1..Len(assets) : assets[k].index = index]

\* the assets whose displayTitle differs between the two versions, in the order of
\* the before document
assetsToUpdate(beforeAssets, afterAssets) ==
    LET changed(a) == /\ HasIndex(afterAssets, a.index)
                      /\ a.displayTitle # AssetAt(afterAssets, a.index).displayTitle
        kept == SelectSeq(beforeAssets, changed)
    IN  [k \in 1..Len(kept) |->
            [index |-> kept[k].index,
             oldDisplayTitle |-> kept[k].displayTitle,
             newDisplayTitle |-> AssetAt(afterAssets, kept[k].index).displayTitle]]

\* the title 'Personal' stands for the client's own name
RecipientOf(displayTitle, clientName) ==
    IF displayTitle = "Personal" THEN clientName ELSE displayTitle

\* activitiesRef.where('fund', '==', fund).where('recipient', '==', oldRecipient).get()
ActivitiesWhere(acts, userId, fund, recipient) ==
    LET hit(i) == /\ acts[i].owner = userId
                  /\ acts[i].fund = fund
                  /\ acts[i].recipient = recipient
    IN  SelectSeq([i \in 1..Len(acts) |-> i], hit)

\* the batch.update calls of the loop over assetsToUpdate, in order
RECURSIVE QueueUpdates(_, _, _, _, _)
QueueUpdates(acts, renames, userId, fund, clientName) ==
    IF renames = <<>> THEN <<>>
    ELSE LET newRecipient == RecipientOf(Head(renames).newDisplayTitle, clientName)
             oldRecipient == RecipientOf(Head(renames).oldDisplayTitle, clientName)
             snapshot == ActivitiesWhere(acts, userId, fund, oldRecipient)
         IN  [k \in 1..Len(snapshot) |-> Op(snapshot[k], newRecipient)]
                 \o QueueUpdates(acts, Tail(renames), userId, fund, clientName)

\* the activities after the store has applied the operations in order
ApplyOps(acts, ops) ==
    [i \in 1..Len(acts) |->
        LET on == {k \in 1..Len(ops) : ops[k].doc = i}
        IN  IF on = {} THEN acts[i]
            ELSE [acts[i] EXCEPT !.recipient =
                      ops[CHOOSE k \in on : \A j \in on : j <= k].write]]

FundOf(assetId) == IF assetId = "agq" THEN "AGQ" ELSE "AK1"

ClientNameOf(userId) == IF users[userId].exists THEN users[userId].name ELSE ""

onAssetUpdate(userId, assetId, beforeAssets, afterAssets) ==
    /\ pc = "idle"
    /\ LET fund == FundOf(assetId)
           renames == assetsToUpdate(beforeAssets, afterAssets)
           clientName == ClientNameOf(userId)
           ops == QueueUpdates(activities, renames, userId, fund, clientName)
           c == Commit("onAssetUpdate", 1, Len(ops))
       IN  IF renames = <<>> \/ clientName = ""
           THEN UNCHANGED <<activities, commits>>
           ELSE /\ commits' = Append(commits, c)
                /\ activities' = IF c.accepted THEN ApplyOps(activities, ops)
                                 ELSE activities
    /\ assetChange' = [userId |-> userId, assetId |-> assetId,
                       before |-> beforeAssets, after |-> afterAssets]
    /\ activitiesBefore' = activities
    /\ call' = [NoCall EXCEPT !.fn = "onAssetUpdate"]
    /\ pc' = "done"
    /\ outcome' = "ok"
    /\ UNCHANGED <<users, auth, ytdVars, trigVars, accVars, formVars, clientFormVars, usersSnapshot, resetIndex,
                   operationsCount>>

\* the ids of usersSnapshot.docs that are followed one by one; the snapshot holds
\* them first and then the documents of further users, whose assets/general exist
SnapshotDocs == SelectSeq(CidOrder, LAMBDA c : users[c].exists)

\* batch.update(assetsGeneralRef, {ytd: 0, totalYtd: 0}) of the documents at the
\* places first .. first + size - 1 of the snapshot, as the commit applies them
ResetGeneral(first, size) ==
    [c \in Cids |->
        IF \E k \in first..(first + size - 1) : k <= Len(SnapshotDocs) /\ SnapshotDocs[k] = c
        THEN [general[c] EXCEPT !.ytd = 0, !.totalYtd = 0]
        ELSE general[c]]

\* a commit is rejected when one of its updates addresses a missing document
UpdatesMissingDoc(first, size) ==
    \E k \in first..(first + size - 1) :
        k <= Len(SnapshotDocs) /\ ~general[SnapshotDocs[k]].exists

\* await batch.commit() of size operations that begin at place first of the snapshot:
\* the writes are applied, or the commit throws and the catch rethrows
scheduledYTDReset_Commit(first, size) ==
    IF UpdatesMissingDoc(first, size)
    THEN /\ outcome' = "error"
         /\ pc' = "done"
         /\ UNCHANGED <<general, commits>>
    ELSE /\ commits' = Append(commits, Commit("scheduledYTDReset", first, size))
         /\ general' = ResetGeneral(first, size)
         /\ UNCHANGED <<outcome, pc>>

\* const usersSnapshot = await db.collection(userCollection).get()
scheduledYTDReset_Start(furtherUsers) ==
    /\ pc = "idle"
    /\ usersSnapshot' = Len(SnapshotDocs) + furtherUsers
    /\ resetIndex' = 0
    /\ operationsCount' = 0
    /\ call' = [NoCall EXCEPT !.fn = "scheduledYTDReset"]
    /\ pc' = "reset"
    /\ outcome' = "none"
    /\ activitiesBefore' = activities
    /\ UNCHANGED <<dbVars, ytdVars, trigVars, clientFormVars, accVars, formVars, assetChange,
                   commits>>

\* one pass of the loop over usersSnapshot.docs
scheduledYTDReset_Iteration ==
    /\ pc = "reset"
    /\ resetIndex < usersSnapshot
    /\ resetIndex' = resetIndex + 1
    /\ IF operationsCount + 1 = maxBatchSize
       THEN /\ scheduledYTDReset_Commit(resetIndex + 1 - operationsCount,
                                        operationsCount + 1)
            /\ operationsCount' = 0
       ELSE /\ operationsCount' = operationsCount + 1
            /\ UNCHANGED <<commits, general, outcome, pc>>
    /\ UNCHANGED <<dbVars, ytdVars, tokens, notifications, pushes, clientFormVars, accVars,
                   formVars, call, assetChange, activitiesBefore, usersSnapshot>>

\* the commit of the remaining operations, and the return
scheduledYTDReset_Finish ==
    /\ pc = "reset"
    /\ resetIndex = usersSnapshot
    /\ IF operationsCount > 0 /\ UpdatesMissingDoc(resetIndex + 1 - operationsCount,
                                                   operationsCount)
       THEN /\ outcome' = "error"
            /\ UNCHANGED <<general, commits>>
       ELSE /\ outcome' = "ok"
            /\ IF operationsCount > 0
               THEN /\ commits' = Append(commits,
                           Commit("scheduledYTDReset", resetIndex + 1 - operationsCount,
                                  operationsCount))
                    /\ general' = ResetGeneral(resetIndex + 1 - operationsCount,
                                               operationsCount)
               ELSE UNCHANGED <<general, commits>>
    /\ pc' = "done"
    /\ UNCHANGED <<dbVars, ytdVars, tokens, notifications, pushes, clientFormVars, accVars,
                   formVars, call, assetChange, activitiesBefore, usersSnapshot, resetIndex,
                   operationsCount>>

-----------------------------------------------------------------------------
(* Specification SpecBatch: one asset document update, or one yearly reset *)

\* display titles of assets; 'Personal' is the title of the client's own holding
Titles == {"Personal", "IRA", "Trust"}

AssetIndexes == {0, 1}

\* the asset entries of a document, in any key order, each index once
AssetDocs ==
    {<<>>}
      \cup {<<Asset(i, t)>> : i \in AssetIndexes, t \in Titles}
      \cup {<<Asset(i, t), Asset(j, u)>> :
                <<i, j>> \in {p \in AssetIndexes \X AssetIndexes : p[1] # p[2]},
                <<t, u>> \in Titles \X Titles}

\* the same documents up to key order (the after version is only looked up by index)
AssetDocsInIndexOrder ==
    {d \in AssetDocs : \A k \in 1..(Len(d) - 1) : d[k].index < d[k + 1].index}

\* activities of the two clients in both funds, paid to an asset or to c1 in person
RecipientChoices ==
    {Activity(owner, fund, "deposit", 0, 1, recipient) :
        owner \in {"c1", "c2"}, fund \in {"AGQ", "AK1"},
        recipient \in {"IRA", "Trust", "John Doe"}}

\* n activities of client c1 in fund AGQ, all paid to the asset titled IRA
BulkActivities(n) == [i \in 1..n |-> Activity("c1", "AGQ", "deposit", 0, 1, "IRA")]

\* numbers of further users, for sizes of the users collection around the batch limit
FurtherUsers(limit) == {0, limit - 2, 2 * limit - 1}

InitBatch ==
    /\ users = [c \in Cids |-> IF c = "c1" THEN NewDoc("John Doe", <<>>)
                               ELSE IF c = "c2" THEN NewDoc("Jane Roe", <<>>)
                               ELSE NoDoc]
    /\ activities \in SeqsUpTo(RecipientChoices, MaxActs)
                        \cup {BulkActivities(maxBatchSize), BulkActivities(maxBatchSize + 1)}
    /\ InitIdle
    /\ InitCaches

NextBatch ==
    \/ \E assetId \in {"agq", "ak1"}, b \in AssetDocs, a \in AssetDocsInIndexOrder :
           onAssetUpdate("c1", assetId, b, a)
    \/ \E n \in FurtherUsers(maxBatchSize) : scheduledYTDReset_Start(n)
    \/ scheduledYTDReset_Iteration
    \/ scheduledYTDReset_Finish

SpecBatch == InitBatch /\ [][NextBatch]_vars

AssetUpdateDone == call.fn = "onAssetUpdate" /\ pc = "done"

\* the renames of the handled change as pairs <<old recipient, new recipient>>
RenamedRecipients ==
    LET name == ClientNameOf(assetChange.userId)
    IN  {<<RecipientOf(b.displayTitle, name), RecipientOf(a.displayTitle, name)>> :
            <<b, a>> \in {p \in Range(assetChange.before) \X Range(assetChange.after) :
                             /\ p[1].index = p[2].index
                             /\ p[1].displayTitle # p[2].displayTitle}}

\* C7: after onAssetUpdate has handled a change of a client's asset document in which
\* an asset (by index) changed its displayTitle from old to new, every activity of
\* that client in the document's fund (AGQ for agq, AK1 otherwise) whose recipient was
\* old has recipient new, 'Personal' standing for the client's full name on either
\* side; every activity of another client, of the other fund, or with a recipient
\* that no renamed asset had, is unchanged. (No demand is made for a recipient that
\* two renamed assets shared.)
C7_RenameRewritesRecipients ==
    AssetUpdateDone =>
        \A i \in 1..Len(activitiesBefore) :
            LET act == activitiesBefore[i]
                mine == /\ act.owner = assetChange.userId
                        /\ act.fund = FundOf(assetChange.assetId)
                news == {p[2] : p \in {q \in RenamedRecipients : q[1] = act.recipient}}
            IN  /\ (mine /\ Cardinality(news) = 1)
                      => activities[i] = [act EXCEPT !.recipient = CHOOSE r \in news : TRUE]
                /\ (~mine \/ news = {}) => activities[i] = act

\* the number of batch.update calls the finished function made
QueuedUpdates ==
    IF call.fn = "scheduledYTDReset" THEN usersSnapshot
    ELSE IF assetsToUpdate(assetChange.before, assetChange.after) = <<>>
              \/ ClientNameOf(assetChange.userId) = "" THEN 0
    ELSE Len(QueueUpdates(activitiesBefore,
                          assetsToUpdate(assetChange.before, assetChange.after),
                          assetChange.userId, FundOf(assetChange.assetId),
                          ClientNameOf(assetChange.userId)))

\* C9: every write batch that scheduledYTDReset or onAssetUpdate commits holds at most
\* 500 operations, and when the function has finished every update it queued is part
\* of exactly one committed batch.
C9_BatchesWithinLimit ==
    /\ \A k \in 1..Len(commits) : commits[k].size <= maxBatchSize
    /\ (pc = "done" /\ call.fn \in {"scheduledYTDReset", "onAssetUpdate"}) =>
           \A q \in 1..QueuedUpdates :
               Cardinality({k \in 1..Len(commits) :
                               /\ commits[k].accepted
                               /\ commits[k].first <= q
                               /\ q < commits[k].first + commits[k].size}) = 1

-----------------------------------------------------------------------------
(* Admin forms: the activity form and the CSV import of the client form *)

\* Text whose letter case matters is spelled as a sequence of characters.
LowerLetters ==
    <<"a", "b", "c", "d", "e", "f", "g", "h", "i", "j", "k", "l", "m",
      "n", "o", "p", "q", "r", "s", "t", "u", "v", "w", "x", "y", "z">>
UpperLetters ==
    <<"A", "B", "C", "D", "E", "F", "G", "H", "I", "J", "K", "L", "M",
      "N", "O", "P", "Q", "R", "S", "T", "U", "V", "W", "X", "Y", "Z">>

PlaceIn(letters, ch) == CHOOSE k \in 1..Len(letters) : letters[k] = ch

toUpperCase(str) ==
    [k \in 1..Len(str) |->
        IF str[k] \in Range(LowerLetters)
        THEN UpperLetters[PlaceIn(LowerLetters, str[k])] ELSE str[k]]

toLowerCase(str) ==
    [k \in 1..Len(str) |->
        IF str[k] \in Range(UpperLetters)
        THEN LowerLetters[PlaceIn(UpperLetters, str[k])] ELSE str[k]]

\* str.split(' ')
RECURSIVE split(_)
split(str) ==
    IF \A k \in 1..Len(str) : str[k] # " " THEN <<str>>
    ELSE LET at == CHOOSE k \in 1..Len(str) :
                       str[k] = " " /\ \A j \in 1..(k - 1) : str[j] # " "
         IN  <<SubSeq(str, 1, at - 1)>> \o split(SubSeq(str, at + 1, Len(str)))

\* words.join(' ')
RECURSIVE join(_)
join(words) ==
    IF Len(words) = 1 THEN words[1]
    ELSE words[1] \o <<" ">> \o join(Tail(words))

\* const exceptions = ["LLC", "Inc", "Ltd"]
exceptions == <<(<<"L", "L", "C">>), (<<"I", "n", "c">>), (<<"L", "t", "d">>)>>

\* a word in upper case if its upper case is an exception, else its first letter in
\* upper case and the rest in lower case
toTitleCase(str) ==
    LET words == split(str)
        cased(word) ==
            IF toUpperCase(word) \in Range(exceptions) THEN toUpperCase(word)
            ELSE toUpperCase(SubSeq(word, 1, 1)) \o toLowerCase(SubSeq(word, 2, Len(word)))
    IN  join([k \in 1..Len(words) |-> cased(words[k])])

\* str.trimEnd()
RECURSIVE trimEnd(_)
trimEnd(str) ==
    IF str # <<>> /\ str[Len(str)] = " " THEN trimEnd(SubSeq(str, 1, Len(str) - 1))
    ELSE str

\* names used below
JoMcK == <<"J", "o", " ", "M", "c", "K">>
AbLLC == <<"A", "b", " ", "L", "L", "C">>
DiNg == <<"D", "i", " ", "N", "g">>
Zed == <<"Z", "e", "d">>
UndefinedUndefined ==
    <<"u", "n", "d", "e", "f", "i", "n", "e", "d", " ",
      "u", "n", "d", "e", "f", "i", "n", "e", "d">>

\* db.getUser(cid): client c1 is Jo McK of the company Ab LLC, client c2 is Di Ng
\* without a company; any other id has no client (null).
getUser(cid) ==
    IF cid = "c1"
    THEN [cid |-> "c1", firstName |-> <<"J", "o">>, lastName |-> <<"M", "c", "K">>,
          companyName |-> AbLLC, activities |-> <<>>]
    ELSE IF cid = "c2"
    THEN [cid |-> "c2", firstName |-> <<"D", "i">>, lastName |-> <<"N", "g">>,
          companyName |-> <<>>, activities |-> <<>>]
    ELSE NoUser

\* firstName + ' ' + lastName
FullName(user) == user.firstName \o <<" ">> \o user.lastName

\* clientState?.firstName + ' ' + clientState?.lastName
FullNameOrUndefined(user) == IF user = NoUser THEN UndefinedUndefined ELSE FullName(user)

\* the effect on [activityState.recipient, clientState]: it runs after a handler that
\* changed one of the two, and leaves the switch alone while the recipient is empty
SameAsUserEffect(ran, recipient, client, switch) ==
    IF ran /\ recipient # <<>> THEN recipient = FullNameOrUndefined(client) ELSE switch

\* EditActivity is shown for a new activity: emptyActivity, no client fetched
OpenActivityForm ==
    /\ pc = "idle"
    /\ activityState' = [recipient |-> <<>>, parentDocId |-> "", amount |-> 0]
    /\ clientState' = getUser("")
    /\ isRecipientSameAsUser' = TRUE
    /\ call' = [NoCall EXCEPT !.fn = "createActivity"]
    /\ pc' = "form"
    /\ activitiesBefore' = activities
    /\ UNCHANGED <<dbVars, ytdVars, trigVars, clientFormVars, accVars, outcome, assetChange, commits,
                   usersSnapshot, resetIndex, operationsCount>>

\* the "Select User" list changes to the option of client cid, or to no option
\* (cid = "")
SelectUser(cid) ==
    /\ pc = "form"
    /\ LET fallback == getUser(activityState.parentDocId)
           client == IF cid = "" \/ getUser(cid) = NoUser THEN fallback ELSE getUser(cid)
           user == FullName(getUser(cid))
           recipient == IF cid # "" /\ isRecipientSameAsUser THEN user
                        ELSE activityState.recipient
       IN  /\ clientState' = client
           /\ activityState' = [activityState EXCEPT !.recipient = recipient]
           /\ isRecipientSameAsUser' =
                  SameAsUserEffect(TRUE, recipient, client, isRecipientSameAsUser)
    /\ UNCHANGED <<dbVars, ytdVars, trigVars, clientFormVars, accVars, batchVars, pc, outcome, call>>

\* the "Recipient is the same as the user" switch is set to checked
ToggleSameAsUser(checked) ==
    /\ pc = "form"
    /\ checked # isRecipientSameAsUser
    /\ LET recipient == IF clientState = NoUser THEN activityState.recipient
                        ELSE IF checked THEN FullName(clientState)
                        ELSE clientState.companyName
       IN  /\ activityState' = [activityState EXCEPT !.recipient = recipient]
           /\ isRecipientSameAsUser' =
                  SameAsUserEffect(recipient # activityState.recipient, recipient,
                                   clientState, checked)
    /\ UNCHANGED <<dbVars, ytdVars, trigVars, clientFormVars, accVars, batchVars, pc, outcome, call, clientState>>

\* text is typed into the recipient field, which is disabled while the switch is on
TypeRecipient(text) ==
    /\ pc = "form"
    /\ ~isRecipientSameAsUser
    /\ text # activityState.recipient
    /\ activityState' = [activityState EXCEPT !.recipient = text]
    /\ isRecipientSameAsUser' = SameAsUserEffect(TRUE, text, clientState, FALSE)
    /\ UNCHANGED <<dbVars, ytdVars, trigVars, clientFormVars, accVars, batchVars, pc, outcome, call, clientState>>

\* a number is typed into the amount field
TypeAmount(amount) ==
    /\ pc = "form"
    /\ amount # activityState.amount
    /\ activityState' = [activityState EXCEPT !.amount = amount]
    /\ UNCHANGED <<dbVars, ytdVars, trigVars, clientFormVars, accVars, batchVars, pc, outcome, call, clientState,
                   isRecipientSameAsUser>>

\* ValidateActivity: the Activity Amount and Recipient entries (fund, time and type
\* are filled in from emptyActivity)
ValidateActivity(activity) == ~(activity.amount <= 0) /\ activity.recipient # <<>>

\* the form is submitted: it stays open when the validation fails or when
\* clientState!.cid throws for a null client, else it writes the activity and closes
handleCreateActivity ==
    /\ pc = "form"
    /\ IF ~ValidateActivity(activityState)
       THEN /\ outcome' = "invalid"
            /\ pc' = "form"
            /\ UNCHANGED activities
       ELSE IF clientState = NoUser
       THEN /\ outcome' = "TypeError"
            /\ pc' = "form"
            /\ UNCHANGED activities
       ELSE /\ outcome' = "ok"
            /\ pc' = "done"
            /\ activities' = Append(activities,
                   Activity(clientState.cid, "AGQ", "profit", 0, activityState.amount,
                            activityState.recipient))
    /\ UNCHANGED <<users, auth, ytdVars, trigVars, accVars, batchVars, formVars, clientFormVars, call>>

\* [...activities].sort((a, b) => a.time - b.time), a stable sort
RECURSIVE SortByTime(_)
SortByTime(acts) ==
    IF acts = <<>> THEN <<>>
    ELSE LET rest == SortByTime(SubSeq(acts, 1, Len(acts) - 1))
             last == acts[Len(acts)]
             before == SelectSeq(rest, LAMBDA a : a.time <= last.time)
             after == SelectSeq(rest, LAMBDA a : a.time > last.time)
         IN  before \o <<last>> \o after

\* the recipient the import gives the row with this name, <<"skip">> standing for a
\* row it leaves out
ImportedRecipient(recipientName, client) ==
    LET name == toTitleCase(trimEnd(recipientName))
        clientFullName == trimEnd(client.firstName) \o <<" ">> \o trimEnd(client.lastName)
    IN  IF /\ toLowerCase(name) # toLowerCase(clientFullName)
           /\ toLowerCase(name) # toLowerCase(client.companyName)
        THEN <<"skip">>
        ELSE IF toLowerCase(name) = toLowerCase(client.companyName)
        THEN client.companyName
        ELSE name

\* a CSV file is chosen in the client form of client cid; a row is the name before
\* the dash of its "Security Name" and its date
handleActivitiesFileChange(cid, rows) ==
    /\ pc = "idle"
    /\ LET client == getUser(cid)
           kept == SelectSeq(rows,
                       LAMBDA row : ImportedRecipient(row.name, client) # <<"skip">>)
           imported == [k \in 1..Len(kept) |->
                           Activity(cid, "AGQ", "deposit", kept[k].time, 1,
                                    ImportedRecipient(kept[k].name, client))]
       IN  clientState' =
               [client EXCEPT !.activities = SortByTime(client.activities \o imported)]
    /\ call' = [NoCall EXCEPT !.fn = "handleActivitiesFileChange"]
    /\ pc' = "done"
    /\ outcome' = "ok"
    /\ UNCHANGED <<dbVars, ytdVars, trigVars, clientFormVars, accVars, batchVars, activityState,
                   isRecipientSameAsUser>>

-----------------------------------------------------------------------------
(* Specification SpecForms: one activity entered in the form, or one CSV import *)

\* most rows of an imported file
MaxRows == 2

\* what an admin types into the recipient field
RecipientTexts == {<<>>, Zed, JoMcK}

\* names in the rows of a file: the clients and the company in several spellings, and
\* a stranger
CsvNames ==
    {JoMcK, toUpperCase(JoMcK), toLowerCase(AbLLC), AbLLC, DiNg, Zed}

CsvRows == {[name |-> n, time |-> t] : n \in CsvNames, t \in {1, 2}}

InitForms ==
    /\ users = [c \in Cids |-> IF c = "c1" THEN NewDoc("Jo McK", <<>>)
                               ELSE IF c = "c2" THEN NewDoc("Di Ng", <<>>)
                               ELSE NoDoc]
    /\ activities = <<>>
    /\ InitIdle
    /\ InitCaches

NextForms ==
    \/ OpenActivityForm
    \/ \E cid \in {"", "c1", "c2"} : SelectUser(cid)
    \/ \E checked \in BOOLEAN : ToggleSameAsUser(checked)
    \/ \E text \in RecipientTexts : TypeRecipient(text)
    \/ \E amount \in {0, 1} : TypeAmount(amount)
    \/ handleCreateActivity
    \/ \E cid \in {"c1", "c2"}, rows \in SeqsUpTo(CsvRows, MaxRows) :
           handleActivitiesFileChange(cid, rows)

SpecForms == InitForms /\ [][NextForms]_vars

\* the full name and the company name of client cid
NamesOfClient(cid) == {FullName(getUser(cid)), getUser(cid).companyName}

\* C8: every activity written from the activity form, and every activity accepted
\* from a CSV import, has as recipient the full name (first name, a space, last name)
\* or the company name of the client it belongs to.
C8_RecipientIsOwnersName ==
    /\ \A i \in 1..Len(activities) :
           activities[i].recipient \in NamesOfClient(activities[i].owner)
    /\ \A i \in 1..Len(clientState.activities) :
           clientState.activities[i].recipient \in NamesOfClient(clientState.cid)

-----------------------------------------------------------------------------
(* Claims on the error codes of unlinkUser (SpecAccess) *)

\* C11: when unlinkUser is called with all its arguments and a cid that has no client
\* document, the caller gets the error code not-found and no client document has
\* changed.
C11_UnlinkMissingIsNotFound ==
    (/\ call.fn = "unlinkUser"
     /\ pc = "done"
     /\ call.uid # "" /\ call.cid # "" /\ call.coll # ""
     /\ ~usersBefore[call.cid].exists)
        => (outcome = "not-found" /\ users = usersBefore)

-----------------------------------------------------------------------------
(* checkDocumentLinked / isUIDLinked *)

\* an argument the caller left out (undefined), as a uid or collection id and as a cid
Undefined == "<undefined>"
UndefinedCid == <<"<undefined>">>

\* String(cid).trim(), on the characters of the cid
RECURSIVE trim(_)
trim(str) ==
    IF str # <<>> /\ Head(str) = " " THEN trim(Tail(str))
    ELSE trimEnd(str)

\* the text (a document id) spelled by the characters
RECURSIVE DocId(_)
DocId(str) == IF str = <<>> THEN "" ELSE Head(str) \o DocId(Tail(str))

\* The callable checks its arguments inside its try block, so the catch block gets
\* the invalid-argument errors as well and throws unknown in their place.
checkDocumentLinked(cid, usersCollectionID) ==
    /\ pc = "idle"
    /\ call' = [NoCall EXCEPT !.fn = "checkDocumentLinked", !.cid = DocId(cid),
                               !.coll = usersCollectionID]
    /\ LET thrown ==
               IF cid = UndefinedCid THEN "invalid-argument"
               ELSE IF usersCollectionID = Undefined THEN "invalid-argument"
               ELSE IF Len(trim(cid)) = 0 THEN "invalid-argument"
               ELSE "none"
           id == DocId(trim(cid))
           doc == IF id \in Cids THEN users[id] ELSE NoDoc
       IN  IF thrown # "none"
           THEN /\ outcome' = "unknown"
                /\ isLinked' = FALSE
           ELSE /\ outcome' = "ok"
                /\ isLinked' = (doc.exists /\ doc.uid # "")
    /\ pc' = "done"
    /\ UNCHANGED <<dbVars, ytdVars, trigVars, batchVars, formVars, clientFormVars, snap, tasks, events, change,
                   hpc, usersBefore>>

isUIDLinked(uid, usersCollectionID) ==
    /\ pc = "idle"
    /\ call' = [NoCall EXCEPT !.fn = "isUIDLinked", !.uid = uid, !.coll = usersCollectionID]
    /\ LET thrown ==
               IF uid = Undefined \/ uid = "" THEN "invalid-argument"
               ELSE IF usersCollectionID = Undefined \/ usersCollectionID = ""
               THEN "invalid-argument"
               ELSE "none"
       IN  IF thrown # "none"
           THEN /\ outcome' = "unknown"
                /\ isLinked' = FALSE
           ELSE /\ outcome' = "ok"
                /\ isLinked' = (\E c \in Cids : users[c].exists /\ users[c].uid = uid)
    /\ pc' = "done"
    /\ UNCHANGED <<dbVars, ytdVars, trigVars, batchVars, formVars, clientFormVars, snap, tasks, events, change,
                   hpc, usersBefore>>

-----------------------------------------------------------------------------
(* Specification SpecLinked: one call of checkDocumentLinked or isUIDLinked *)

\* a client document that is linked to uid, or to no account for uid = ""
LinkedDoc(fullName, uid) == [NewDoc(fullName, <<>>) EXCEPT !.uid = uid]

\* the cid arguments: left out, empty, blank, the id of c1 bare and padded, and c3
CidArguments ==
    {UndefinedCid, <<>>, <<" ">>, <<"c", "1">>, <<" ", "c", "1", " ">>, <<"c", "3">>}

InitLinked ==
    /\ users \in {[c \in Cids |-> IF c = "c1" THEN d1 ELSE IF c = "c2" THEN d2 ELSE NoDoc] :
                     d1 \in {NoDoc} \cup {LinkedDoc("John Doe", u) : u \in Uids \cup {""}},
                     d2 \in {NoDoc} \cup {LinkedDoc("Jane Roe", u) : u \in Uids \cup {""}}}
    /\ activities = <<>>
    /\ InitIdle
    /\ InitCaches

NextLinked ==
    \/ \E cid \in CidArguments, coll \in {Undefined, "users"} :
           checkDocumentLinked(cid, coll)
    \/ \E uid \in Uids \cup {Undefined, ""}, coll \in {Undefined, "", "users"} :
           isUIDLinked(uid, coll)

SpecLinked == InitLinked /\ [][NextLinked]_vars

\* C12: a call of checkDocumentLinked whose cid is left out or empty after trimming,
\* or whose usersCollectionID is left out, and a call of isUIDLinked whose uid or
\* usersCollectionID is left out or empty, ends with the error code invalid-argument.
C12_MissingArgumentIsInvalidArgument ==
    /\ (pc = "done" /\ call.fn = "isUIDLinked"
          /\ (call.uid \in {Undefined, ""} \/ call.coll \in {Undefined, ""}))
           => outcome = "invalid-argument"
    /\ (pc = "done" /\ call.fn = "checkDocumentLinked"
          /\ (call.cid \in {Undefined, "", " "} \/ call.coll = Undefined))
           => outcome = "invalid-argument"

-----------------------------------------------------------------------------
(* handleActivity: handleNewActivity, createNotif, sendNotif *)

\* a client document without a tokens field
NoTokens == <<"<undefined>">>

\* values of the sendNotif field: the booleans, the string 'true', and no field
SendNotifValues == {"true", "false", "'true'", Undefined}

\* an activity document with its id, the collection it lies in and its sendNotif
NotifActivity(id, owner, coll, recipient, sendNotif) ==
    [id |-> id, owner |-> owner, coll |-> coll, fund |-> "AGQ", type |-> "deposit",
     time |-> 0, amount |-> 1, recipient |-> recipient, sendNotif |-> sendNotif]

\* an activity document is created under client owner of collection coll
CreateActivity(id, owner, coll, recipient, sendNotif) ==
    /\ pc = "idle"
    /\ \A i \in 1..Len(activities) : activities[i].id # id
    /\ activities' = Append(activities, NotifActivity(id, owner, coll, recipient, sendNotif))
    /\ call' = [NoCall EXCEPT !.fn = "handleActivity", !.cid = owner, !.coll = coll]
    /\ pc' = "created"
    /\ outcome' = "none"
    /\ UNCHANGED <<users, auth, ytdVars, trigVars, accVars, batchVars, formVars, clientFormVars>>

\* the notification record createNotif adds under client cid
createNotif(activity, cid, activityId) ==
    [owner |-> cid, activityId |-> activityId, recipient |-> activity.recipient,
     isRead |-> FALSE, type |-> "activity"]

\* the messages sendNotif hands to messaging.send(), one for each token
PushesOf(cid, activityId) ==
    [k \in 1..Len(tokens[cid]) |->
        [owner |-> cid, activityId |-> activityId, token |-> tokens[cid][k]]]

\* handleNewActivity for the activity created last. sendNotif's promise is returned
\* without being awaited, so its rejection (no tokens, or a send that fails) is the
\* result of the invocation. sendFails: messaging.send() rejects for a token.
handleNewActivity_NotifyAlways(sendFails) ==
    /\ pc = "created"
    /\ LET activity == activities[Len(activities)]
           userId == call.cid
       IN  /\ notifications' =
                  Append(notifications, createNotif(activity, userId, activity.id))
           /\ pushes' = pushes
           /\ outcome' = "ok"
    /\ pc' = "idle"
    /\ UNCHANGED <<dbVars, ytdVars, accVars, batchVars, formVars, clientFormVars, call, general, tokens>>

\* handleNewActivity that sends the push messages first and adds the record after
handleNewActivity_PushFirst(sendFails) ==
    /\ pc = "created"
    /\ LET activity == activities[Len(activities)]
           userId == call.cid
           userCollection == call.coll
       IN  IF \/ activity.sendNotif # "true"
              \/ userCollection \in {"backup", "playground", "playground2"}
           THEN /\ outcome' = "ok"
                /\ UNCHANGED <<notifications, pushes>>
           ELSE IF ~users[userId].exists \/ tokens[userId] = NoTokens
           THEN /\ outcome' = "error"
                /\ UNCHANGED <<notifications, pushes>>
           ELSE /\ pushes' = pushes \o PushesOf(userId, activity.id)
                /\ IF sendFails /\ tokens[userId] # <<>>
                   THEN /\ outcome' = "error"
                        /\ UNCHANGED notifications
                   ELSE /\ outcome' = "ok"
                        /\ notifications' =
                               Append(notifications, createNotif(activity, userId, activity.id))
    /\ pc' = "idle"
    /\ UNCHANGED <<dbVars, ytdVars, accVars, batchVars, formVars, clientFormVars, call, general, tokens>>

handleNewActivity(sendFails) ==
    /\ pc = "created"
    /\ LET activity == activities[Len(activities)]
           userId == call.cid
           userCollection == call.coll
       IN  IF \/ activity.sendNotif # "true"
              \/ userCollection = "backup"
              \/ userCollection = "playground"
              \/ userCollection = "playground2"
           THEN /\ outcome' = "ok"
                /\ UNCHANGED <<notifications, pushes>>
           ELSE /\ notifications' =
                       Append(notifications, createNotif(activity, userId, activity.id))
                /\ IF ~users[userId].exists \/ tokens[userId] = NoTokens
                   THEN \* throw new Error('FCM tokens not found')
                        /\ outcome' = "error"
                        /\ UNCHANGED pushes
                   ELSE /\ pushes' = pushes \o PushesOf(userId, activity.id)
                        /\ outcome' = IF sendFails /\ tokens[userId] # <<>>
                                      THEN "error" ELSE "ok"
    /\ pc' = "idle"
    /\ UNCHANGED <<dbVars, ytdVars, accVars, batchVars, formVars, clientFormVars, call, general, tokens>>

-----------------------------------------------------------------------------
(* Specification SpecNotify: activities are created one after the other *)

\* most activities created
MaxCreated == 2

\* the id of the n-th activity created
ActivityId(n) == IF n = 1 THEN "a1" ELSE IF n = 2 THEN "a2" ELSE IF n = 3 THEN "a3" ELSE "a4"

Collections == {"users", "backup", "playground", "playground2"}

InitNotify ==
    /\ users = [c \in Cids |-> IF c = MissingCid THEN NoDoc ELSE NewDoc("John Doe", <<>>)]
    /\ activities = <<>>
    /\ InitIdle
    /\ general = [c \in Cids |-> IF users[c].exists THEN GeneralDoc(0, 0) ELSE NoGeneralDoc]
    /\ tokens \in {[c \in Cids |-> IF c = "c1" THEN t ELSE NoTokens] :
                      t \in {NoTokens, <<>>, <<"t1">>, <<"t1", "t2">>}}

NextNotify ==
    \/ /\ Len(activities) < MaxCreated
       /\ \E owner \in {"c1", MissingCid}, coll \in Collections,
             recipient \in {"John Doe", "IRA"}, sendNotif \in SendNotifValues :
              CreateActivity(ActivityId(Len(activities) + 1), owner, coll, recipient,
                             sendNotif)
    \/ \E sendFails \in BOOLEAN : handleNewActivity(sendFails)

SpecNotify == InitNotify /\ [][NextNotify]_vars

\* the created activities whose trigger has run
Handled == SubSeq(activities, 1, Len(activities) - (IF pc = "created" THEN 1 ELSE 0))

\* an activity that asks for a notification, outside the collections that get none
Notifies(a) ==
    a.sendNotif = "true" /\ a.coll \notin {"backup", "playground", "playground2"}

\* C14: the notification records are exactly one record for each created activity
\* whose sendNotif is exactly true and whose collection is none of backup, playground,
\* playground2, in creation order, under the owning client, with the activity's id and
\* recipient, isRead = false and type 'activity'; no record is ever changed or removed
\* and none exists for another activity; every push message belongs to such an
\* activity.
C14_OneNotificationPerActivity ==
    LET due == SelectSeq(Handled, Notifies)
    IN  /\ notifications =
               [k \in 1..Len(due) |->
                   [owner |-> due[k].owner, activityId |-> due[k].id,
                    recipient |-> due[k].recipient, isRead |-> FALSE, type |-> "activity"]]
        /\ \A k \in 1..Len(pushes) :
               \E j \in 1..Len(due) : /\ due[j].id = pushes[k].activityId
                                      /\ due[j].owner = pushes[k].owner

\* two activities were created for c1, the first without and the second with a
\* notification, and the second was pushed to both devices of c1
C14_Witness ==
    /\ pc = "idle"
    /\ Len(activities) = 2
    /\ ~Notifies(activities[1])
    /\ activities[1].sendNotif = "'true'"
    /\ Notifies(activities[2])
    /\ Len(notifications) = 1
    /\ notifications[1].recipient = "IRA"
    /\ Len(pushes) = 2

\* C13: an invocation of a database-triggered or scheduled function that has finished
\* did not end in an error, whatever side effect failed in it.
C13_TriggersSwallowFailures ==
    (/\ call.fn \in {"handleActivity", "onActivityWrite", "onConnectedUsersChange",
                     "onAssetUpdate", "scheduledYTDReset"}
     /\ pc \in {"idle", "done"})
        => outcome # "error"

-----------------------------------------------------------------------------
(* Admin client forms: CreateClient and EditClient *)

\* The content of a client form. A text field is "" or filled ("x"); a date is null,
\* an invalid date ("NaN") or a date. The edit form keeps initEmail and the list
\* beneficiaries, the create form email and the two names of the beneficiary.
ClientContent(firstName, lastName, companyName, address, dob, phoneNumber, email, firstDepositDate, beneficiaries, beneficiaryFirstName, beneficiaryLastName) ==
    [firstName |-> firstName, lastName |-> lastName, companyName |-> companyName,
     address |-> address, dob |-> dob, phoneNumber |-> phoneNumber, initEmail |-> email,
     email |-> email, firstDepositDate |-> firstDepositDate,
     beneficiaries |-> beneficiaries, beneficiaryFirstName |-> beneficiaryFirstName,
     beneficiaryLastName |-> beneficiaryLastName]

\* emptyClient
emptyClient == ClientContent("", "", "", "", "null", "", "", "null", <<>>, "", "")

\* !date || isNaN(date.getTime())
NoValidDate(date) == date = "null" \/ date = "NaN"

\* the display names of the conditions that hold, in the order of fieldValidations
FailedNames(fieldValidations) ==
    LET failed == SelectSeq(fieldValidations, LAMBDA v : v.condition)
    IN  [k \in 1..Len(failed) |-> failed[k].displayName]

FieldValidation(displayName, condition) ==
    [displayName |-> displayName, condition |-> condition]

\* the fields ValidateClient of ClientInputModalBody reports (edit form)
ValidateClient(client, useCompanyName) ==
    FailedNames(<<
        FieldValidation("First Name", client.firstName = ""),
        FieldValidation("Last Name", client.lastName = ""),
        FieldValidation("Company Name", useCompanyName /\ client.companyName = ""),
        FieldValidation("Address", client.address = ""),
        FieldValidation("DOB", NoValidDate(client.dob)),
        FieldValidation("Phone Number", client.phoneNumber = ""),
        FieldValidation("Email", client.initEmail = ""),
        FieldValidation("First Deposit Date", NoValidDate(client.firstDepositDate)),
        FieldValidation("Beneficiary",
                        client.beneficiaries # <<>> /\ client.beneficiaries[1] = "")>>)

\* the fields ValidateClient of CreateClient reports (create form)
CreateClient_ValidateClient(client, useCompanyName) ==
    FailedNames(<<
        FieldValidation("First Name", client.firstName = ""),
        FieldValidation("Last Name", client.lastName = ""),
        FieldValidation("Company Name", useCompanyName /\ client.companyName = ""),
        FieldValidation("Address", client.address = ""),
        FieldValidation("DOB", NoValidDate(client.dob)),
        FieldValidation("Phone Number", client.phoneNumber = ""),
        FieldValidation("Email", client.email = ""),
        FieldValidation("First Deposit Date", NoValidDate(client.firstDepositDate)),
        FieldValidation("Beneficiary's First Name", client.beneficiaryFirstName = ""),
        FieldValidation("Beneficiary's Last Name", client.beneficiaryLastName = "")>>)

\* one call of db.createUser(clientState) or db.updateClient(clientState)
ClientWrite(by, client) ==
    [by |-> by, client |-> client, useCompanyName |-> clientForm.useCompanyName,
     override |-> clientForm.override]

\* a client form is shown: CreateClient with emptyUser, or EditClient with the
\* active client
OpenClientForm(kind, activeClient) ==
    /\ pc = "idle"
    /\ kind = "create" => activeClient = emptyClient
    /\ clientState' = activeClient
    /\ clientForm' = [NoForm EXCEPT !.kind = kind,
                                    !.useCompanyName = (kind = "edit"
                                                          /\ activeClient.companyName # "")]
    /\ call' = [NoCall EXCEPT !.fn = kind]
    /\ pc' = "clientForm"
    /\ UNCHANGED <<deleteClient, dbVars, ytdVars, trigVars, accVars, batchVars, outcome, activityState,
                   isRecipientSameAsUser, clientWrites>>

\* the operator changes one field of the form (the email entry stands for initEmail
\* on the edit form); the fields are followed up to the choice to override
FillClientForm(field, value) ==
    /\ pc = "clientForm"
    /\ ~clientForm.showErrorModal
    /\ ~clientForm.override
    /\ clientState[field] # value
    /\ clientState' = IF field = "email"
                      THEN [clientState EXCEPT !.email = value, !.initEmail = value]
                      ELSE [clientState EXCEPT ![field] = value]
    /\ outcome' = "none"
    /\ UNCHANGED <<dbVars, ytdVars, trigVars, accVars, batchVars, pc, call, activityState,
                   isRecipientSameAsUser, clientFormVars>>

\* the company-name box is checked or unchecked
SetUseCompanyName(checked) ==
    /\ pc = "clientForm"
    /\ ~clientForm.showErrorModal
    /\ ~clientForm.override
    /\ checked # clientForm.useCompanyName
    /\ clientForm' = [clientForm EXCEPT !.useCompanyName = checked]
    /\ outcome' = "none"
    /\ UNCHANGED <<deleteClient, dbVars, ytdVars, trigVars, accVars, batchVars, formVars, pc, call,
                   clientWrites>>

\* "Create +" is pressed
Create ==
    /\ pc = "clientForm"
    /\ clientForm.kind = "create"
    /\ ~clientForm.showErrorModal
    /\ LET fields == CreateClient_ValidateClient(clientState, clientForm.useCompanyName)
       IN  IF fields # <<>>
           THEN /\ clientForm' = [clientForm EXCEPT !.showErrorModal = TRUE,
                                                    !.invalidInputFields = fields]
                /\ outcome' = "invalid"
                /\ UNCHANGED <<pc, clientWrites>>
           ELSE /\ clientForm' = [clientForm EXCEPT !.invalidInputFields = fields]
                /\ clientWrites' = Append(clientWrites, ClientWrite("createUser", clientState))
                /\ outcome' = "ok"
                /\ pc' = "done"
    /\ UNCHANGED <<deleteClient, dbVars, ytdVars, trigVars, accVars, batchVars, formVars, call>>

\* "Update" that submits the client whatever ValidateClient reports
Update_IgnoresValidation ==
    /\ pc = "clientForm"
    /\ clientForm.kind = "edit"
    /\ ~clientForm.showErrorModal
    /\ clientForm' = [clientForm EXCEPT !.invalidInputFields =
                          ValidateClient(clientState, clientForm.useCompanyName)]
    /\ clientWrites' = Append(clientWrites, ClientWrite("updateClient", clientState))
    /\ outcome' = "ok"
    /\ pc' = "done"
    /\ UNCHANGED <<deleteClient, dbVars, ytdVars, trigVars, accVars, batchVars, formVars, call>>

\* "Update" is pressed
Update ==
    /\ pc = "clientForm"
    /\ clientForm.kind = "edit"
    /\ ~clientForm.showErrorModal
    /\ LET fields == ValidateClient(clientState, clientForm.useCompanyName)
       IN  IF fields # <<>> /\ ~clientForm.override
           THEN /\ clientForm' = [clientForm EXCEPT !.showErrorModal = TRUE,
                                                    !.invalidInputFields = fields]
                /\ outcome' = "invalid"
                /\ UNCHANGED <<pc, clientWrites>>
           ELSE /\ clientForm' = [clientForm EXCEPT !.invalidInputFields = fields]
                /\ clientWrites' = Append(clientWrites, ClientWrite("updateClient", clientState))
                /\ outcome' = "ok"
                /\ pc' = "done"
    /\ UNCHANGED <<deleteClient, dbVars, ytdVars, trigVars, accVars, batchVars, formVars, call>>

\* the error dialog is closed; its list, which is shown nowhere else and is set anew
\* by the next validation, is dropped with it
CloseErrorModal ==
    /\ pc = "clientForm"
    /\ clientForm.showErrorModal
    /\ clientForm' = [clientForm EXCEPT !.showErrorModal = FALSE,
                                        !.invalidInputFields = <<>>]
    /\ outcome' = "none"
    /\ UNCHANGED <<deleteClient, dbVars, ytdVars, trigVars, accVars, batchVars, formVars, pc,
                   call, clientWrites>>

\* the operator chooses in the error dialog of the edit form to override: the effect
\* on [override] submits the client, whose two dates handleEditClient then clears
ChooseOverride ==
    /\ pc = "clientForm"
    /\ clientForm.kind = "edit"
    /\ clientForm.showErrorModal
    /\ ~clientForm.override
    /\ clientForm' = [clientForm EXCEPT !.override = TRUE, !.showErrorModal = FALSE,
                                        !.invalidInputFields = <<>>]
    /\ clientWrites' =
           Append(clientWrites,
                  [ClientWrite("updateClient", clientState) EXCEPT !.override = TRUE])
    /\ clientState' = [clientState EXCEPT !.dob = "null", !.firstDepositDate = "null"]
    /\ outcome' = "ok"
    /\ UNCHANGED <<deleteClient, dbVars, ytdVars, trigVars, accVars, batchVars, pc, call, activityState,
                   isRecipientSameAsUser>>

-----------------------------------------------------------------------------
(* Specification SpecClientForm: one client form, from its opening to its write *)

TextValues == {"", "x"}
DateValues == {"null", "NaN", "date"}

\* the clients the edit form may be opened for
ActiveClients ==
    {ClientContent(fn, ln, cn, ad, dob, ph, em, fdd, ben, "", "") :
        fn \in TextValues, ln \in TextValues, cn \in TextValues, ad \in TextValues,
        dob \in DateValues, ph \in TextValues, em \in TextValues, fdd \in DateValues,
        ben \in {<<>>, <<"">>, <<"x">>}}

\* the fields the operator can change on a form of this kind, with their values
FieldChoices(kind) ==
    {<<f, v>> : f \in {"firstName", "lastName", "companyName", "address", "phoneNumber",
                       "email"}, v \in TextValues}
      \cup {<<f, v>> : f \in {"dob", "firstDepositDate"}, v \in DateValues}
      \cup (IF kind = "edit"
            THEN {<<"beneficiaries", v>> : v \in {<<>>, <<"">>, <<"x">>}}
            ELSE {<<f, v>> : f \in {"beneficiaryFirstName", "beneficiaryLastName"},
                             v \in TextValues})

InitClientForm ==
    /\ users = [c \in Cids |-> NoDoc]
    /\ activities = <<>>
    /\ InitIdle
    /\ InitCaches

NextClientForm ==
    \/ OpenClientForm("create", emptyClient)
    \/ \E activeClient \in ActiveClients : OpenClientForm("edit", activeClient)
    \/ \E fv \in FieldChoices(clientForm.kind) : FillClientForm(fv[1], fv[2])
    \/ \E checked \in BOOLEAN : SetUseCompanyName(checked)
    \/ Create
    \/ Update
    \/ CloseErrorModal
    \/ ChooseOverride

SpecClientForm == InitClientForm /\ [][NextClientForm]_vars

\* the names of the required fields that are not filled, with the given names for the
\* beneficiary; on the create form the beneficiary has a first and a last name
MissingFields(kind, client, useCompanyName, beneficiaryNames) ==
    LET named(name, missing) == IF missing THEN <<name>> ELSE <<>>
    IN  named("First Name", client.firstName = "")
          \o named("Last Name", client.lastName = "")
          \o named("Company Name", useCompanyName /\ client.companyName = "")
          \o named("Address", client.address = "")
          \o named("DOB", client.dob # "date")
          \o named("Phone Number", client.phoneNumber = "")
          \o named("Email", client.email = "")
          \o named("First Deposit Date", client.firstDepositDate # "date")
          \o (IF kind = "edit"
              THEN named(beneficiaryNames[1],
                         client.beneficiaries # <<>> /\ client.beneficiaries[1] = "")
              ELSE IF Len(beneficiaryNames) = 1
              THEN named(beneficiaryNames[1],
                         client.beneficiaryFirstName = "" \/ client.beneficiaryLastName = "")
              ELSE named(beneficiaryNames[1], client.beneficiaryFirstName = "")
                     \o named(beneficiaryNames[2], client.beneficiaryLastName = ""))

FormOfWrite(w) == IF w.by = "createUser" THEN "create" ELSE "edit"

\* the statement on the client forms, for the given names of the beneficiary entries
\* of the create form
ClientFormValidates(createBeneficiaryNames) ==
    LET names(kind) == IF kind = "edit" THEN <<"Beneficiary">> ELSE createBeneficiaryNames
    IN  /\ outcome = "invalid" =>
               /\ clientForm.showErrorModal
               /\ ~clientForm.override
               /\ MissingFields(clientForm.kind, clientState, clientForm.useCompanyName,
                                names(clientForm.kind)) # <<>>
        /\ clientForm.showErrorModal =>
               clientForm.invalidInputFields =
                   MissingFields(clientForm.kind, clientState, clientForm.useCompanyName,
                                 names(clientForm.kind))
        /\ \A k \in 1..Len(clientWrites) :
               \/ clientWrites[k].override
               \/ MissingFields(FormOfWrite(clientWrites[k]), clientWrites[k].client,
                                clientWrites[k].useCompanyName,
                                names(FormOfWrite(clientWrites[k]))) = <<>>

-----------------------------------------------------------------------------
(* Specification SpecReset: the yearly reset of the cached year-to-date values *)

\* cached values before the reset
CachedValues == {0, 7}

InitReset ==
    /\ users \in [Cids -> {NoDoc, NewDoc("John Doe", <<>>)}]
    /\ users["c3"] = NoDoc
    /\ activities = <<>>
    /\ InitIdle
    /\ general \in [Cids -> {NoGeneralDoc}
                              \cup {GeneralDoc(y, t) : y \in CachedValues, t \in CachedValues}]
    /\ \A c \in Cids : general[c].exists => users[c].exists
    /\ tokens = <<>>

NextReset ==
    \/ \E n \in FurtherUsers(maxBatchSize) : scheduledYTDReset_Start(n)
    \/ scheduledYTDReset_Iteration
    \/ scheduledYTDReset_Finish

SpecReset == InitReset /\ [][NextReset]_vars

ResetDone == call.fn = "scheduledYTDReset" /\ pc = "done" /\ outcome = "ok"

\* C16: once scheduledYTDReset has completed without error, the assets/general document
\* of every client of the users collection holds ytd = 0 and totalYTD = 0, totalYTD being
\* the field updateYTD writes.
C16_ResetClearsBothCachedValues ==
    ResetDone =>
        \A c \in Cids : users[c].exists =>
            general[c].ytd = 0 /\ general[c].totalYTD = 0

-----------------------------------------------------------------------------
(* updateYTD / onActivityWrite *)

\* the loop of calculateTotalYTDForUser run to its end: the sum, the processed users
\* and the number of calculateYTDForUser queries per client
RECURSIVE Traverse(_, _, _)
Traverse(queue, processed, sum) ==
    IF queue = <<>> THEN [sum |-> sum, processed |-> processed]
    ELSE LET currentUserCid == Head(queue)
             rest == Tail(queue)
         IN  IF currentUserCid # "" /\ currentUserCid \notin processed
             THEN Traverse(IF users[currentUserCid].exists
                           THEN rest \o users[currentUserCid].connectedUsers
                           ELSE rest,
                           processed \cup {currentUserCid},
                           sum + calculateYTDForUser(currentUserCid))
             ELSE Traverse(rest, processed, sum)

calculateTotalYTDForUser(cid) == Traverse(<<cid>>, {}, 0).sum

\* usersCollectionRef.where('connectedUsers', 'array-contains', cid)
ParentsOf(cid) == {p \in Cids : users[p].exists /\ Includes(users[p].connectedUsers, cid)}

\* the general documents after update({ totalYTD: parentUserTotalYTD }) of the parents
WithParentTotals(g, parents) ==
    [c \in Cids |-> IF c \in parents
                    THEN [g[c] EXCEPT !.totalYTD = calculateTotalYTDForUser(c)]
                    ELSE g[c]]

\* the calculateYTDForUser queries of one updateYTD(cid)
QueriesOfUpdate(cid, parents) ==
    [c \in Cids |->
        (IF c = cid THEN 1 ELSE 0)
          + Cardinality({r \in {cid} \cup parents : c \in Traverse(<<r>>, {}, 0).processed})
          + (IF cid \in parents /\ c \in Traverse(<<cid>>, {}, 0).processed THEN 1 ELSE 0)]

\* updateYTD that refreshes the client alone
updateYTD_OwnDocumentOnly(cid) ==
    /\ ytdResult' = calculateYTDForUser(cid)
    /\ totalYTD' = calculateTotalYTDForUser(cid)
    /\ processedUsers' = Traverse(<<cid>>, {}, 0).processed
    /\ ytdQueries' = QueriesOfUpdate(cid, {})
    /\ IF ~general[cid].exists
       THEN /\ outcome' = "error"
            /\ UNCHANGED general
       ELSE /\ outcome' = "ok"
            /\ general' = [general EXCEPT ![cid] =
                              [@ EXCEPT !.ytd = calculateYTDForUser(cid),
                                        !.totalYTD = calculateTotalYTDForUser(cid)]]

\* updateYTD(cid): the update of a missing assets/general document rejects, and the
\* catch rethrows; the updates of the parents run side by side, so that when one of
\* them rejects any of the others may or may not have been written
updateYTD(cid) ==
    LET ytd == calculateYTDForUser(cid)
        total == calculateTotalYTDForUser(cid)
        own == [general EXCEPT ![cid] = [@ EXCEPT !.ytd = ytd, !.totalYTD = total]]
        missing == {p \in ParentsOf(cid) : ~general[p].exists}
    IN  /\ ytdResult' = ytd
        /\ totalYTD' = total
        /\ processedUsers' = Traverse(<<cid>>, {}, 0).processed
        /\ IF ~general[cid].exists
           THEN /\ outcome' = "error"
                /\ ytdQueries' = QueriesOfUpdate(cid, {})
                /\ UNCHANGED general
           ELSE IF missing = {}
           THEN /\ outcome' = "ok"
                /\ ytdQueries' = QueriesOfUpdate(cid, ParentsOf(cid))
                /\ general' = WithParentTotals(own, ParentsOf(cid))
           ELSE /\ outcome' = "error"
                /\ ytdQueries' = QueriesOfUpdate(cid, ParentsOf(cid))
                /\ \E written \in SUBSET (ParentsOf(cid) \ missing) :
                       general' = WithParentTotals(own, written)

\* change.before / change.after of an activity document: <<>> when it does not exist
ActivityChange(userId, beforeDoc, afterDoc) ==
    [cid |-> userId, before |-> beforeDoc, after |-> afterDoc, uid |-> ""]

\* the portal writes of an activity document (a create, a delete, an update), each
\* of which fires onActivityWrite
WriteActivity(userId, beforeDoc, afterDoc, acts) ==
    /\ pc = "idle"
    /\ activitiesBefore' = activities
    /\ activities' = acts
    /\ change' = ActivityChange(userId, beforeDoc, afterDoc)
    /\ call' = [NoCall EXCEPT !.fn = "onActivityWrite", !.cid = userId, !.coll = "users"]
    /\ ytdQueries' = NoQueries
    /\ processedUsers' = {}
    /\ pc' = "written"
    /\ UNCHANGED <<users, auth, userQueue, totalYTD, ytdResult, outcome, trigVars, formVars,
                   clientFormVars, snap, tasks, events, hpc, usersBefore, isLinked,
                   assetChange, commits, usersSnapshot, resetIndex, operationsCount>>

RemoveAt(seq, i) == SubSeq(seq, 1, i - 1) \o SubSeq(seq, i + 1, Len(seq))

ActivityCreated(a) ==
    WriteActivity(a.owner, <<>>, <<a>>, Append(activities, a))

ActivityDeleted(i) ==
    /\ i \in 1..Len(activities)
    /\ WriteActivity(activities[i].owner, <<activities[i]>>, <<>>, RemoveAt(activities, i))

ActivityUpdated(i, a) ==
    /\ i \in 1..Len(activities)
    /\ a.owner = activities[i].owner
    /\ a # activities[i]
    /\ WriteActivity(a.owner, <<activities[i]>>, <<a>>, [activities EXCEPT ![i] = a])

doesAffectYTD(activity) ==
    /\ activity.fund = "AGQ"
    /\ activity.type \in {"profit", "income"}
    /\ activity.time >= startOfYear

\* shouldUpdateYTD that looks, on an update, at the after version alone
shouldUpdateYTD_AfterVersionOnly(before, after) ==
    IF before = <<>> THEN doesAffectYTD(after[1])
    ELSE IF after = <<>> THEN doesAffectYTD(before[1])
    ELSE doesAffectYTD(after[1])

shouldUpdateYTD(before, after) ==
    IF before = <<>> THEN doesAffectYTD(after[1])
    ELSE IF after = <<>> THEN doesAffectYTD(before[1])
    ELSE doesAffectYTD(before[1]) \/ doesAffectYTD(after[1])

onActivityWrite ==
    /\ pc = "written"
    /\ IF shouldUpdateYTD(change.before, change.after)
       THEN updateYTD(change.cid)
       ELSE /\ outcome' = "ok"
            /\ UNCHANGED <<general, ytdResult, totalYTD, processedUsers, ytdQueries>>
    /\ pc' = "done"
    /\ UNCHANGED <<dbVars, userQueue, call, tokens, notifications, pushes, formVars,
                   clientFormVars, accVars, batchVars>>

-----------------------------------------------------------------------------
(* Specification SpecCache: one write of an activity and its trigger *)

\* most activities in the collection before the write
MaxCached == 1

\* the activities written: both owners, in and out of the fund and the types summed,
\* before the year, at its first instant and on December 31
CachedActivities ==
    {Activity(o, k[1], k[2], tm, am, "") :
        o \in {"c1", "c2"},
        k \in {<<"AGQ", "profit">>, <<"AGQ", "deposit">>, <<"AK1", "income">>},
        tm \in {startOfYear - 1, startOfYear, lastHourOfYear},
        am \in {1, 2}}

\* the connectedUsers lists of c1 and c2: each other, c1 alone, a self-link with a
\* duplicate and a missing client, none
CachedGraphs ==
    {<<(<<"c2">>), (<<"c1">>)>>, <<(<<"c2", "c3">>), <<>>>>,
     <<(<<"c1", "c2">>), (<<"c1", "c1">>)>>, <<(<<>>), <<>>>>}

InitCache ==
    /\ \E g \in CachedGraphs :
           users = [c \in Cids |-> IF c = "c1" THEN NewDoc("John Doe", g[1])
                                   ELSE IF c = "c2" THEN NewDoc("Jane Roe", g[2])
                                   ELSE NoDoc]
    /\ activities \in SeqsUpTo({a \in CachedActivities : a.amount = 1}, MaxCached)
    /\ InitIdle
    /\ \E lacking \in {{}, {"c1"}, {"c2"}} :
           general = [c \in Cids |->
                         IF users[c].exists /\ c \notin lacking
                         THEN GeneralDoc(calculateYTDForUser(c), calculateTotalYTDForUser(c))
                         ELSE NoGeneralDoc]
    /\ tokens = [c \in Cids |-> <<>>]

NextCache ==
    \/ \E a \in CachedActivities : ActivityCreated(a)
    \/ \E i \in 1..MaxCached : ActivityDeleted(i)
    \/ \E i \in 1..MaxCached, a \in CachedActivities : ActivityUpdated(i, a)
    \/ onActivityWrite

SpecCache == InitCache /\ [][NextCache]_vars

\* the value calculateYTDForUser returns for a client over a given collection
YTDOver(acts, userCid) ==
    SumOver([i \in 1..Len(acts) |-> acts[i].amount],
            {i \in 1..Len(acts) :
                /\ acts[i].owner = userCid
                /\ acts[i].fund = "AGQ"
                /\ acts[i].type \in {"profit", "income"}
                /\ acts[i].time >= startOfYear
                /\ acts[i].time <= endOfYear})

\* a version of an activity document that is an AGQ profit/income activity dated on
\* or after January 1 of the current year
CountsFromJanuary(version) ==
    /\ version # <<>>
    /\ version[1].fund = "AGQ"
    /\ version[1].type \in {"profit", "income"}
    /\ version[1].time >= startOfYear

UpdateYTDInvoked == call.fn = "onActivityWrite" /\ pc = "done" /\ ytdQueries[call.cid] > 0

\* C17: a run of onActivityWrite invokes updateYTD for the owning client whenever the
\* write changed the value calculateYTDForUser returns for that client, and leaves
\* every cached value as it was when neither the before nor the after version is an
\* AGQ profit/income activity dated on or after January 1 of the current year.
C17_WriteRefreshesCache ==
    [][(pc = "written" /\ pc' = "done") =>
          /\ YTDOver(activitiesBefore, change.cid) # YTDOver(activities, change.cid)
                 => UpdateYTDInvoked'
          /\ (~CountsFromJanuary(change.before) /\ ~CountsFromJanuary(change.after))
                 => general' = general]_vars

\* an activity of the sum was moved to the other fund: the client's cached values
\* were refreshed and dropped to 0
C17_Witness ==
    /\ UpdateYTDInvoked
    /\ outcome = "ok"
    /\ change.cid = "c1"
    /\ change.before = <<Activity("c1", "AGQ", "profit", startOfYear, 1, "")>>
    /\ change.after = <<Activity("c1", "AK1", "income", startOfYear, 1, "")>>
    /\ YTDOver(activitiesBefore, "c1") = 1
    /\ general["c1"].ytd = 0

UpdateYTDDone == UpdateYTDInvoked /\ outcome = "ok"

TotalOverReachable(cid) ==
    SumOver([c \in Cids |-> calculateYTDForUser(c)], ReachFrom({cid}))

\* C18: when updateYTD(cid) has completed, the cached ytd of cid is cid's own YTD, the
\* cached totalYTD of cid is the total over the clients reachable from cid, and the
\* cached totalYTD of every client whose connectedUsers contains cid is the total over
\* the clients reachable from that client.
C18_UpdateRefreshesClientAndParents ==
    UpdateYTDDone =>
        /\ general[call.cid].ytd = calculateYTDForUser(call.cid)
        /\ general[call.cid].totalYTD = TotalOverReachable(call.cid)
        /\ \A P \in Cids :
               (users[P].exists /\ Includes(users[P].connectedUsers, call.cid))
                   => general[P].totalYTD = TotalOverReachable(P)

\* a profit of 2 was created for c2, which c1 lists next to a missing client: the
\* cached total of c1 rose from its own 1 to 3
C18_Witness ==
    /\ UpdateYTDDone
    /\ call.cid = "c2"
    /\ users["c1"].connectedUsers = <<"c2", "c3">>
    /\ change.before = <<>>
    /\ general["c2"].ytd = 2
    /\ general["c2"].totalYTD = 2
    /\ general["c1"].ytd = 1
    /\ general["c1"].totalYTD = 3

-----------------------------------------------------------------------------
(* DeleteClient dialog *)

\* firstName === user?.firstName && lastName === user?.lastName: without a user both
\* sides of the user are undefined, which no text equals
NamesMatch(firstName, lastName, user) ==
    /\ user # NoUser
    /\ firstName = user.firstName
    /\ lastName = user.lastName

\* the effect on [firstName, lastName, user], run after the change of one of them
WithNamesMatched(dialog) ==
    [dialog EXCEPT !.doNamesMatch = NamesMatch(dialog.firstName, dialog.lastName, dialog.user)]

\* the dialog is rendered for a client, or for none
OpenDeleteClient(user) ==
    /\ pc = "idle"
    /\ deleteClient' = WithNamesMatched([NoDeleteClient EXCEPT !.showModal = TRUE,
                                                               !.user = user,
                                                               !.deleted = deleteClient.deleted])
    /\ call' = [NoCall EXCEPT !.fn = "DeleteClient", !.cid = user.cid]
    /\ pc' = "deleteClient"
    /\ outcome' = "none"
    /\ UNCHANGED <<dbVars, ytdVars, trigVars, accVars, batchVars, formVars, clientForm,
                   clientWrites>>

\* setFirstName(e.target.value)
TypeFirstName(text) ==
    /\ pc = "deleteClient"
    /\ deleteClient.firstName # text
    /\ deleteClient' = WithNamesMatched([deleteClient EXCEPT !.firstName = text])
    /\ UNCHANGED <<dbVars, ytdVars, trigVars, accVars, batchVars, formVars, clientForm,
                   clientWrites, pc, call, outcome>>

\* setLastName(e.target.value)
TypeLastName(text) ==
    /\ pc = "deleteClient"
    /\ deleteClient.lastName # text
    /\ deleteClient' = WithNamesMatched([deleteClient EXCEPT !.lastName = text])
    /\ UNCHANGED <<dbVars, ytdVars, trigVars, accVars, batchVars, formVars, clientForm,
                   clientWrites, pc, call, outcome>>

\* "Cancel", or the dialog is closed: the component, rendered only while shown, is
\* unmounted
CancelDeleteClient ==
    /\ pc = "deleteClient"
    /\ deleteClient' = [NoDeleteClient EXCEPT !.deleted = deleteClient.deleted]
    /\ pc' = "idle"
    /\ UNCHANGED <<dbVars, ytdVars, trigVars, accVars, batchVars, formVars, clientForm,
                   clientWrites, call, outcome>>

\* "Delete" pressed whether or not the button is enabled
PressDelete_AlwaysEnabled ==
    /\ pc = "deleteClient"
    /\ deleteClient' = [deleteClient EXCEPT !.deleted = Append(@, deleteClient.user.cid),
                                            !.showModal = FALSE]
    /\ outcome' = "ok"
    /\ pc' = "done"
    /\ UNCHANGED <<dbVars, ytdVars, trigVars, accVars, batchVars, formVars, clientForm,
                   clientWrites, call>>

\* "Delete" is pressed, which the button allows while doNamesMatch:
\* service.deleteUser(user?.cid), then the dialog closes and the page reloads
PressDelete ==
    /\ pc = "deleteClient"
    /\ deleteClient.doNamesMatch
    /\ deleteClient' = [deleteClient EXCEPT !.deleted = Append(@, deleteClient.user.cid),
                                            !.showModal = FALSE]
    /\ outcome' = "ok"
    /\ pc' = "done"
    /\ UNCHANGED <<dbVars, ytdVars, trigVars, accVars, batchVars, formVars, clientForm,
                   clientWrites, call>>

-----------------------------------------------------------------------------
(* Specification SpecDelete: the DeleteClient dialog, opened any number of times *)

\* a client without first and last name, as the edit form can write under override
Unnamed ==
    [cid |-> "c3", firstName |-> <<>>, lastName |-> <<>>, companyName |-> <<>>,
     activities |-> <<>>]

\* the texts typed: nothing, the names of Jo McK and Di Ng, parts of them and other
\* letter cases
TypedNames ==
    {<<>>, <<"J">>, <<"J", "o">>, <<"j", "o">>, <<"J", "O">>, <<"J", "o", " ">>,
     <<"M", "c", "K">>, <<"M", "c", "k">>, <<"M", "c">>, <<"D", "i">>, <<"N", "g">>}

InitDelete ==
    /\ users = [c \in Cids |-> IF c = "c1" THEN NewDoc("Jo McK", <<>>)
                               ELSE IF c = "c2" THEN NewDoc("Di Ng", <<>>)
                               ELSE NewDoc(" ", <<>>)]
    /\ activities = <<>>
    /\ InitIdle
    /\ InitCaches

NextDelete ==
    \/ \E user \in {getUser("c1"), getUser("c2"), Unnamed, NoUser} : OpenDeleteClient(user)
    \/ \E text \in TypedNames : TypeFirstName(text)
    \/ \E text \in TypedNames : TypeLastName(text)
    \/ CancelDeleteClient
    \/ PressDelete

SpecDelete == InitDelete /\ [][NextDelete]_vars

\* C19: service.deleteUser is called for a client only in a state where the first and
\* last name typed are exactly the client's firstName and lastName; in every other
\* state of the dialog, without a client included, the Delete button is disabled.
C19_DeleteOnlyWhenNamesMatch ==
    /\ [](pc = "deleteClient" =>
             (deleteClient.doNamesMatch <=>
                 /\ deleteClient.user # NoUser
                 /\ deleteClient.firstName = deleteClient.user.firstName
                 /\ deleteClient.lastName = deleteClient.user.lastName))
    /\ [][deleteClient'.deleted # deleteClient.deleted =>
             /\ deleteClient.user # NoUser
             /\ deleteClient.firstName = deleteClient.user.firstName
             /\ deleteClient.lastName = deleteClient.user.lastName
             /\ deleteClient'.deleted = Append(deleteClient.deleted, deleteClient.user.cid)]_vars

\* Jo McK was deleted after both names were typed as they are written
C19_Witness ==
    /\ pc = "done"
    /\ call.fn = "DeleteClient"
    /\ deleteClient.deleted = <<"c1">>
    /\ deleteClient.firstName = <<"J", "o">>
    /\ deleteClient.lastName = <<"M", "c", "K">>

-----------------------------------------------------------------------------
(* onConnectedUsersChange: what it writes *)

\* the peers that are in one of the two lists of the change and not in the other
AddedOrRemoved == (Range(change.after) \ Range(change.before))
                      \cup (Range(change.before) \ Range(change.after))

\* C20: a run of onConnectedUsersChange writes no document when the update left
\* connectedUsers with the same set of ids or the updated client has no uid; a document
\* it writes is that of a peer added or removed, never of a peer in both lists, and
\* only the field uidGrantedAccess of the document changes.
C20_WritesOnlyChangedPeers ==
    [][(hpc = "run" /\ users' # users) =>
          /\ Range(change.before) # Range(change.after)
          /\ change.uid # ""
          /\ \E peer \in AddedOrRemoved :
                 /\ \A c \in Cids \ {peer} : users'[c] = users[c]
                 /\ users'[peer] =
                        [users[peer] EXCEPT !.uidGrantedAccess = users'[peer].uidGrantedAccess]]_vars

\* the list of a linked client was reordered: the function passed the comparison of
\* the two lists and ended without a write
C20_Witness ==
    /\ hpc = "done"
    /\ pc = "done"
    /\ call.fn = "editClient"
    /\ change.uid # ""
    /\ change.before = <<"c2", "c3">>
    /\ change.after = <<"c3", "c2">>
    /\ events = <<>>
    /\ users = [usersBefore EXCEPT ![change.cid].connectedUsers = change.after]

-----------------------------------------------------------------------------
(* handleNewActivity: the record and the push messages *)

HasNotification(a) ==
    \E k \in 1..Len(notifications) :
        notifications[k].activityId = a.id /\ notifications[k].owner = a.owner

HasTokens(cid) == users[cid].exists /\ tokens[cid] # NoTokens

\* C21: the notification record of an activity is added before any push is attempted:
\* every handled activity that asks for a notification has its record, also when the
\* client has no tokens or a send failed; every push belongs to an activity that has
\* its record; and when the client has tokens one push was handed over for each token.
C21_RecordBeforePush ==
    /\ \A i \in 1..Len(Handled) :
           Notifies(Handled[i]) =>
               /\ HasNotification(Handled[i])
               /\ HasTokens(Handled[i].owner) =>
                      \A k \in 1..Len(tokens[Handled[i].owner]) :
                          \E j \in 1..Len(pushes) :
                              /\ pushes[j].activityId = Handled[i].id
                              /\ pushes[j].token = tokens[Handled[i].owner][k]
    /\ \A j \in 1..Len(pushes) :
           \E k \in 1..Len(notifications) :
               notifications[k].activityId = pushes[j].activityId

\* the first activity met a client without tokens and the second a failing send to
\* two tokens: both records exist
C21_Witness ==
    /\ pc = "idle"
    /\ outcome = "error"
    /\ Len(activities) = 2
    /\ activities[1].owner = MissingCid
    /\ activities[2].owner = "c1"
    /\ tokens["c1"] = <<"t1", "t2">>
    /\ Len(notifications) = 2
    /\ Len(pushes) = 2

-----------------------------------------------------------------------------
(* ValidateClient: the beneficiary *)

\* Update was pressed on the edit form, without override, and ValidateClient has run
\* on the client shown
Validated ==
    /\ clientForm.kind = "edit"
    /\ ~clientForm.override
    /\ outcome \in {"ok", "invalid"}

NoBeneficiary(client) ==
    client.beneficiaries = <<>> \/ client.beneficiaries[1] = ""

\* C22: ValidateClient returns false for every client without a beneficiary (an empty
\* beneficiaries list, or a first beneficiary that is the empty string) and reports
\* 'Beneficiary' among the missing fields.
C22_NoBeneficiaryIsRejected ==
    (Validated /\ NoBeneficiary(clientState)) =>
        /\ outcome = "invalid"
        /\ Includes(clientForm.invalidInputFields, "Beneficiary")

-----------------------------------------------------------------------------
(* onConnectedUsersChange: executions side by side *)

\* the portal adds a peer to the connectedUsers of a client while other writes and
\* their triggers may be under way
AddPeerBeside(cid, peer) ==
    /\ pc \in {"idle", "done"}
    /\ users[cid].exists
    /\ ~Includes(users[cid].connectedUsers, peer)
    /\ Len(users[cid].connectedUsers) < MaxConnected
    /\ LET written == [users[cid] EXCEPT !.connectedUsers = Append(@, peer)]
       IN  /\ users' = [users EXCEPT ![cid] = written]
           /\ events' = Append(events, Change(cid, users[cid], written))
    /\ call' = [NoCall EXCEPT !.fn = "editClient", !.cid = cid]
    /\ pc' = "done"
    /\ outcome' = "ok"
    /\ UNCHANGED <<activities, auth, ytdVars, trigVars, batchVars, formVars, clientFormVars,
                   isLinked, snap, tasks, change, hpc, usersBefore>>

\* an execution of onConnectedUsersChange starts, up to its promises, beside the
\* executions that are under way
onConnectedUsersChange_StartBeside ==
    /\ events # <<>>
    /\ LET e == Head(events)
           addedConnectedUsers == Filter(e.after, LAMBDA id : ~Includes(e.before, id))
           removedConnectedUsers == Filter(e.before, LAMBDA id : ~Includes(e.after, id))
       IN  /\ change' = e
           /\ events' = Tail(events)
           /\ IF e.before = e.after \/ e.uid = ""
              THEN /\ hpc' = IF tasks = <<>> THEN "done" ELSE hpc
                   /\ UNCHANGED tasks
              ELSE /\ hpc' = "run"
                   /\ tasks' = tasks \o TasksFor("add", addedConnectedUsers, e.uid)
                                     \o TasksFor("remove", removedConnectedUsers, e.uid)
    /\ UNCHANGED <<dbVars, ytdVars, trigVars, batchVars, formVars, clientFormVars, isLinked,
                   pc, outcome, call, snap, usersBefore>>

-----------------------------------------------------------------------------
(* Specification SpecRace: two linked clients add peers at about the same time *)

\* c1 is linked to u1 and c2 to u2; c3 is a client that some uid may have access to
InitRace ==
    /\ \E granted \in {<<>>, <<"u1">>, <<"u2">>} :
           users = [c \in Cids |->
                       IF c = "c1" THEN [NewDoc("John Doe", <<>>) EXCEPT !.uid = "u1"]
                       ELSE IF c = "c2" THEN [NewDoc("Jane Roe", <<>>) EXCEPT !.uid = "u2"]
                       ELSE [NewDoc("Jim Poe", <<>>) EXCEPT !.uidGrantedAccess = granted]]
    /\ activities = <<>>
    /\ InitIdle
    /\ InitCaches

NextRace ==
    \/ \E cid \in {"c1", "c2"}, peer \in Cids : AddPeerBeside(cid, peer)
    \/ onConnectedUsersChange_StartBeside
    \/ \E i \in 1..Len(tasks) : onConnectedUsersChange_AddGet(i)
    \/ \E i \in 1..Len(tasks) : onConnectedUsersChange_Update(i)
    \/ onConnectedUsersChange_Return

SpecRace == InitRace /\ [][NextRace]_vars

\* every write has been made and every execution it caused has completed
RaceOver == events = <<>> /\ tasks = <<>> /\ hpc = "done"

\* C23: when c1 (uid u1) and c2 (uid u2) have both added the same peer and both
\* executions of onConnectedUsersChange have completed, the uidGrantedAccess of the
\* peer contains u1 and u2, however the two executions interleaved.
C23_BothUidsGranted ==
    RaceOver =>
        \A P \in Cids :
            (Includes(users["c1"].connectedUsers, P) /\ Includes(users["c2"].connectedUsers, P))
                => (Includes(users[P].uidGrantedAccess, "u1")
                      /\ Includes(users[P].uidGrantedAccess, "u2"))

-----------------------------------------------------------------------------
(* onActivityWrite / updateYTD: executions side by side *)

\* most executions of onActivityWrite under way at a time
MaxRaced == 2

\* one execution of updateYTD(cid): where it stands, and the sums it has read
YTDTask(cid) == [kind |-> "updateYTD", cid |-> cid, at |-> "ytd", ytd |-> 0, totalYTD |-> 0]

\* the portal writes an activity document while executions of the trigger may be
\* under way
WriteActivityBeside(userId, beforeDoc, afterDoc, acts) ==
    /\ pc \in {"idle", "done"}
    /\ Len(events) + Len(tasks) < MaxRaced
    /\ activities' = acts
    /\ events' = Append(events, ActivityChange(userId, beforeDoc, afterDoc))
    /\ call' = [NoCall EXCEPT !.fn = "onActivityWrite", !.cid = userId, !.coll = "users"]
    /\ pc' = "done"
    /\ outcome' = "none"
    /\ UNCHANGED <<users, auth, ytdVars, trigVars, formVars, clientFormVars, batchVars,
                   snap, tasks, change, hpc, usersBefore, isLinked>>

ActivityCreatedBeside(a) ==
    WriteActivityBeside(a.owner, <<>>, <<a>>, Append(activities, a))

ActivityDeletedBeside(i) ==
    /\ i \in 1..Len(activities)
    /\ WriteActivityBeside(activities[i].owner, <<activities[i]>>, <<>>,
                           RemoveAt(activities, i))

ActivityUpdatedBeside(i, a) ==
    /\ i \in 1..Len(activities)
    /\ a.owner = activities[i].owner
    /\ a # activities[i]
    /\ WriteActivityBeside(a.owner, <<activities[i]>>, <<a>>, [activities EXCEPT ![i] = a])

\* an execution of onActivityWrite starts: it returns at once, or calls updateYTD
onActivityWrite_Start ==
    /\ events # <<>>
    /\ change' = Head(events)
    /\ events' = Tail(events)
    /\ IF shouldUpdateYTD(Head(events).before, Head(events).after)
       THEN /\ tasks' = Append(tasks, YTDTask(Head(events).cid))
            /\ hpc' = "run"
       ELSE /\ hpc' = IF tasks = <<>> THEN "done" ELSE hpc
            /\ UNCHANGED tasks
    /\ UNCHANGED <<dbVars, ytdVars, trigVars, batchVars, formVars, clientFormVars, isLinked,
                   pc, outcome, call, snap, usersBefore>>

\* const ytd = await calculateYTDForUser(cid, usersCollectionID)
updateYTD_ReadYTD(i) ==
    /\ tasks[i].at = "ytd"
    /\ tasks' = [tasks EXCEPT ![i] = [@ EXCEPT !.at = "totalYTD",
                                               !.ytd = calculateYTDForUser(tasks[i].cid)]]
    /\ UNCHANGED <<dbVars, ytdVars, trigVars, batchVars, formVars, clientFormVars, isLinked,
                   pc, outcome, call, snap, events, change, hpc, usersBefore>>

\* const totalYTD = await calculateTotalYTDForUser(cid, usersCollectionID)
updateYTD_ReadTotal(i) ==
    /\ tasks[i].at = "totalYTD"
    /\ tasks' = [tasks EXCEPT ![i] =
                    [@ EXCEPT !.at = "update",
                              !.totalYTD = calculateTotalYTDForUser(tasks[i].cid)]]
    /\ UNCHANGED <<dbVars, ytdVars, trigVars, batchVars, formVars, clientFormVars, isLinked,
                   pc, outcome, call, snap, events, change, hpc, usersBefore>>

\* await userGeneralAssetRef.update({ ytd, totalYTD })
updateYTD_UpdateOwn(i) ==
    /\ tasks[i].at = "update"
    /\ IF general[tasks[i].cid].exists
       THEN /\ general' = [general EXCEPT ![tasks[i].cid] =
                              [@ EXCEPT !.ytd = tasks[i].ytd, !.totalYTD = tasks[i].totalYTD]]
            /\ tasks' = [tasks EXCEPT ![i].at = "parents"]
            /\ UNCHANGED outcome
       ELSE /\ outcome' = "error"
            /\ tasks' = [tasks EXCEPT ![i].at = "done"]
            /\ UNCHANGED general
    /\ UNCHANGED <<dbVars, ytdVars, tokens, notifications, pushes, batchVars, formVars,
                   clientFormVars, isLinked, pc, call, snap, events, change, hpc,
                   usersBefore>>

\* the promises of the parents, each recalculating and updating totalYTD, taken
\* together, and the return of the execution
updateYTD_UpdateParents(i) ==
    /\ tasks[i].at = "parents"
    /\ LET missing == {p \in ParentsOf(tasks[i].cid) : ~general[p].exists}
       IN  IF missing = {}
           THEN /\ general' = WithParentTotals(general, ParentsOf(tasks[i].cid))
                /\ UNCHANGED outcome
           ELSE /\ outcome' = "error"
                /\ \E written \in SUBSET (ParentsOf(tasks[i].cid) \ missing) :
                       general' = WithParentTotals(general, written)
    /\ tasks' = [tasks EXCEPT ![i].at = "done"]
    /\ UNCHANGED <<dbVars, ytdVars, tokens, notifications, pushes, batchVars, formVars,
                   clientFormVars, isLinked, pc, call, snap, events, change, hpc,
                   usersBefore>>

\* every execution under way has returned
onActivityWrite_Return ==
    /\ hpc = "run"
    /\ AllTasksDone
    /\ tasks' = <<>>
    /\ hpc' = "done"
    /\ UNCHANGED <<dbVars, ytdVars, trigVars, batchVars, formVars, clientFormVars, isLinked,
                   pc, outcome, call, snap, events, change, usersBefore>>

-----------------------------------------------------------------------------
(* Specification SpecCacheRace: activities of c1 are written at about the same time *)

\* the activities written: profits of c1 in and out of the fund that is summed
RacedActivities ==
    {Activity("c1", f, "profit", startOfYear, am, "") : f \in {"AGQ", "AK1"}, am \in {1, 2}}

\* c2 lists c1; the cached values are those of the activities there are
InitCacheRace ==
    /\ users = [c \in Cids |-> IF c = "c1" THEN NewDoc("John Doe", <<>>)
                               ELSE IF c = "c2" THEN NewDoc("Jane Roe", <<"c1">>)
                               ELSE NoDoc]
    /\ activities \in SeqsUpTo(RacedActivities, 1)
    /\ InitIdle
    /\ general = [c \in Cids |->
                     IF users[c].exists
                     THEN GeneralDoc(calculateYTDForUser(c), calculateTotalYTDForUser(c))
                     ELSE NoGeneralDoc]
    /\ tokens = [c \in Cids |-> <<>>]

NextCacheRace ==
    \/ /\ Len(activities) < MaxRaced
       /\ \E a \in RacedActivities : ActivityCreatedBeside(a)
    \/ \E i \in 1..MaxRaced : ActivityDeletedBeside(i)
    \/ \E i \in 1..MaxRaced, a \in RacedActivities : ActivityUpdatedBeside(i, a)
    \/ onActivityWrite_Start
    \/ \E i \in 1..Len(tasks) : updateYTD_ReadYTD(i)
    \/ \E i \in 1..Len(tasks) : updateYTD_ReadTotal(i)
    \/ \E i \in 1..Len(tasks) : updateYTD_UpdateOwn(i)
    \/ \E i \in 1..Len(tasks) : updateYTD_UpdateParents(i)
    \/ onActivityWrite_Return

SpecCacheRace == InitCacheRace /\ [][NextCacheRace]_vars

\* every write has been made and every execution it caused has completed
CacheRaceOver == events = <<>> /\ tasks = <<>>

\* C24: once every execution of onActivityWrite / updateYTD caused by the writes has
\* completed, the cached ytd of the client is the sum of its qualifying activities as
\* they stand, however the executions interleaved.
C24_CachedYTDIsFinalSum ==
    CacheRaceOver => general["c1"].ytd = calculateYTDForUser("c1")

-----------------------------------------------------------------------------
(* Specification SpecChain: one write of an activity under clients linked in a chain *)

\* the activities written: profits of each client in and out of the fund summed
ChainActivities ==
    {Activity(o, f, "profit", startOfYear, am, "") :
        o \in Cids, f \in {"AGQ", "AK1"}, am \in {1, 2}}

\* the connectedUsers lists of c1, c2 and c3: a chain c1 -> c2 -> c3, and c3 listed
\* by both c1 and c2
ChainGraphs ==
    {<<(<<"c2">>), (<<"c3">>), <<>>>>, <<(<<"c3">>), (<<"c3">>), <<>>>>}

InitChain ==
    /\ \E g \in ChainGraphs :
           users = [c \in Cids |-> IF c = "c1" THEN NewDoc("John Doe", g[1])
                                   ELSE IF c = "c2" THEN NewDoc("Jane Roe", g[2])
                                   ELSE NewDoc("Jim Poe", g[3])]
    /\ activities \in SeqsUpTo({a \in ChainActivities : a.amount = 1}, MaxCached)
    /\ InitIdle
    /\ general = [c \in Cids |->
                     GeneralDoc(calculateYTDForUser(c), calculateTotalYTDForUser(c))]
    /\ tokens = [c \in Cids |-> <<>>]

NextChain ==
    \/ \E a \in ChainActivities : ActivityCreated(a)
    \/ \E i \in 1..MaxCached : ActivityDeleted(i)
    \/ \E i \in 1..MaxCached, a \in ChainActivities : ActivityUpdated(i, a)
    \/ onActivityWrite

SpecChain == InitChain /\ [][NextChain]_vars

\* C25: after a qualifying activity write for a client has been fully processed, with
\* no other writer, every client from which that client is reachable over any number
\* of connectedUsers hops has a cached totalYTD equal to the total over the clients
\* reachable from it.
C25_EveryAncestorRefreshed ==
    UpdateYTDDone =>
        \A X \in Cids :
            (users[X].exists /\ call.cid \in ReachFrom({X}))
                => general[X].totalYTD = TotalOverReachable(X)

-----------------------------------------------------------------------------
(* linkNewUser: calls side by side *)

\* one call of linkNewUser under way: its arguments, where it stands (or the error
\* it threw), and the data of the document it read
LinkCall(cid, uid, email) ==
    [kind |-> "linkNewUser", peer |-> cid, uid |-> uid, email |-> email, at |-> "get",
     existingData |-> NoDoc]

LinkCalls == {i \in 1..Len(tasks) : tasks[i].kind = "linkNewUser"}

\* an authenticated client calls linkNewUser with complete arguments while other
\* calls may be under way
linkNewUser_CallBeside(cid, uid, email) ==
    /\ \A i \in LinkCalls : tasks[i].uid # uid
    /\ tasks' = Append(tasks, LinkCall(cid, uid, email))
    /\ auth' = auth \cup {uid}
    /\ UNCHANGED <<users, activities, ytdVars, trigVars, batchVars, formVars,
                   clientFormVars, isLinked, pc, outcome, call, snap, events, change, hpc,
                   usersBefore>>

\* `await userRef.get()` and the checks made on the snapshot
linkNewUser_GetBeside(i) ==
    /\ tasks[i].kind = "linkNewUser"
    /\ tasks[i].at = "get"
    /\ LET existingData == users[tasks[i].peer]
       IN  tasks' = [tasks EXCEPT ![i] =
                IF ~existingData.exists THEN [@ EXCEPT !.at = "not-found"]
                ELSE IF existingData.uid # "" THEN [@ EXCEPT !.at = "already-exists"]
                ELSE [@ EXCEPT !.at = "set", !.existingData = existingData]]
    /\ UNCHANGED <<dbVars, ytdVars, trigVars, batchVars, formVars, clientFormVars, isLinked,
                   pc, outcome, call, snap, events, change, hpc, usersBefore>>

\* `await userRef.set(updatedData)` and the start of addUidToConnectedUsers
linkNewUser_SetBeside(i) ==
    /\ tasks[i].kind = "linkNewUser"
    /\ tasks[i].at = "set"
    /\ LET updatedData == [tasks[i].existingData EXCEPT !.uid = tasks[i].uid,
                                                        !.email = tasks[i].email,
                                                        !.appEmail = tasks[i].email]
       IN  users' = [users EXCEPT ![tasks[i].peer] = updatedData]
    /\ tasks' = [tasks EXCEPT ![i].at = "peers"]
                    \o TasksFor("link", tasks[i].existingData.connectedUsers, tasks[i].uid)
    /\ UNCHANGED <<activities, auth, ytdVars, trigVars, batchVars, formVars, clientFormVars,
                   isLinked, pc, outcome, call, snap, events, change, hpc, usersBefore>>

\* addUidToConnectedUsers, one promise up to `await connectedUserRef.get()` and the
\* decision taken on the snapshot
addUidToConnectedUsers_GetBeside(i) ==
    /\ tasks[i].kind = "link"
    /\ tasks[i].at = "get"
    /\ LET connectedUserData == users[tasks[i].peer]
           uidGrantedAccess == connectedUserData.uidGrantedAccess
       IN  tasks' = [tasks EXCEPT ![i] =
                IF connectedUserData.exists /\ ~Includes(uidGrantedAccess, tasks[i].uid)
                THEN [@ EXCEPT !.at = "update", !.arr = Append(uidGrantedAccess, tasks[i].uid)]
                ELSE [@ EXCEPT !.at = "done"]]
    /\ UNCHANGED <<dbVars, ytdVars, trigVars, batchVars, formVars, clientFormVars, isLinked,
                   pc, outcome, call, snap, events, change, hpc, usersBefore>>

\* addUidToConnectedUsers, `await connectedUserRef.update({ uidGrantedAccess })`
addUidToConnectedUsers_UpdateBeside(i) ==
    /\ tasks[i].kind = "link"
    /\ tasks[i].at = "update"
    /\ users' = [users EXCEPT ![tasks[i].peer].uidGrantedAccess = tasks[i].arr]
    /\ tasks' = [tasks EXCEPT ![i].at = "done"]
    /\ UNCHANGED <<activities, auth, ytdVars, trigVars, batchVars, formVars, clientFormVars,
                   isLinked, pc, outcome, call, snap, events, change, hpc, usersBefore>>

\* `await Promise.all(updatePromises)` of the call resolves and the call returns
linkNewUser_ReturnBeside(i) ==
    /\ tasks[i].kind = "linkNewUser"
    /\ tasks[i].at = "peers"
    /\ \A j \in 1..Len(tasks) :
           (tasks[j].kind = "link" /\ tasks[j].uid = tasks[i].uid) => tasks[j].at = "done"
    /\ tasks' = [tasks EXCEPT ![i].at = "ok"]
    /\ UNCHANGED <<dbVars, ytdVars, trigVars, batchVars, formVars, clientFormVars, isLinked,
                   pc, outcome, call, snap, events, change, hpc, usersBefore>>

-----------------------------------------------------------------------------
(* Specification SpecLinkRace: two accounts are linked to the unlinked client c1 *)

\* c1 is not linked and lists none, one or two clients, the last of them missing
InitLinkRace ==
    /\ \E connected \in {<<>>, <<"c2">>, <<"c2", "c3">>} :
           users = [c \in Cids |-> IF c = "c1" THEN NewDoc("John Doe", connected)
                                   ELSE IF c = "c2" THEN NewDoc("Jane Roe", <<>>)
                                   ELSE NoDoc]
    /\ activities = <<>>
    /\ InitIdle
    /\ InitCaches

NextLinkRace ==
    \/ \E u \in Uids : linkNewUser_CallBeside("c1", u, EmailOf[u])
    \/ \E i \in 1..Len(tasks) : linkNewUser_GetBeside(i)
    \/ \E i \in 1..Len(tasks) : linkNewUser_SetBeside(i)
    \/ \E i \in 1..Len(tasks) : addUidToConnectedUsers_GetBeside(i)
    \/ \E i \in 1..Len(tasks) : addUidToConnectedUsers_UpdateBeside(i)
    \/ \E i \in 1..Len(tasks) : linkNewUser_ReturnBeside(i)

SpecLinkRace == InitLinkRace /\ [][NextLinkRace]_vars

\* both calls have returned or thrown
LinkRaceOver ==
    /\ Cardinality(LinkCalls) = Cardinality(Uids)
    /\ \A i \in LinkCalls : tasks[i].at \in {"ok", "already-exists", "not-found"}

\* C26: of two calls of linkNewUser for the same unlinked cid with different uids at
\* most one succeeds and the other fails with already-exists, and only the uid of the
\* successful call is stored on the document and in the uidGrantedAccess of the
\* clients it lists.
C26_OneLinkWins ==
    LinkRaceOver =>
        \E w \in LinkCalls :
            /\ tasks[w].at = "ok"
            /\ \A i \in LinkCalls \ {w} : tasks[i].at = "already-exists"
            /\ users["c1"].uid = tasks[w].uid
            /\ \A p \in Cids : Range(users[p].uidGrantedAccess) \subseteq {tasks[w].uid}

-----------------------------------------------------------------------------
(* unlinkUser: what a call leaves behind *)

\* C27: a call of unlinkUser is all-or-nothing: when it returns an error the uid and
\* appEmail of the document are what they were and the authentication account still
\* exists if it did; when it succeeds both fields are empty and the account is
\* deleted.
C27_UnlinkIsAllOrNothing ==
    [][(Idle /\ call'.fn = "unlinkUser" /\ pc' = "done") =>
          /\ outcome' # "ok" =>
                 /\ \A c \in Cids : /\ users'[c].uid = users[c].uid
                                    /\ users'[c].appEmail = users[c].appEmail
                 /\ auth' = auth
          /\ outcome' = "ok" =>
                 /\ users'[call'.cid].uid = ""
                 /\ users'[call'.cid].appEmail = ""
                 /\ call'.uid \notin auth']_vars

-----------------------------------------------------------------------------
(* uidGrantedAccess after calls and edits made one at a time *)

\* the sequence holds no element twice
NoDuplicates(arr) == \A i, j \in 1..Len(arr) : arr[i] = arr[j] => i = j

\* C28: after any sequence of linkNewUser, unlinkUser and connectedUsers edits made
\* one at a time, each with its triggers completed, the uid of every linked client is
\* in the uidGrantedAccess of every client it lists that has a document, and no
\* uidGrantedAccess holds a uid twice.
C28_ListedPeersGrantAccess ==
    Idle =>
        /\ \A C \in Cids :
               (users[C].exists /\ users[C].uid # "")
                   => \A P \in Range(users[C].connectedUsers) :
                          users[P].exists
                              => Includes(users[P].uidGrantedAccess, users[C].uid)
        /\ \A P \in Cids : NoDuplicates(users[P].uidGrantedAccess)

-----------------------------------------------------------------------------
(* Specification SpecGrants: two clients are linked, unlinked and edited in turn *)

\* the clients that are linked and edited; both may list c3
GrantCids == {"c1", "c2"}

GrantLists == {<<>>, <<"c3">>}

InitGrants ==
    /\ users = [c \in Cids |-> NewDoc("John Doe", <<>>)]
    /\ activities = <<>>
    /\ InitIdle
    /\ InitCaches

NextGrants ==
    \/ \E c \in GrantCids, u \in Uids : linkNewUser_Call(TRUE, EmailOf[u], c, u, "users")
    \/ linkNewUser_Set
    \/ \E i \in 1..Len(tasks) : addUidToConnectedUsers_Get(i)
    \/ \E i \in 1..Len(tasks) : addUidToConnectedUsers_Update(i)
    \/ linkNewUser_Return
    \/ \E c \in GrantCids, u \in Uids : unlinkUser(u, c, "users")
    \/ \E cid \in GrantCids, list \in GrantLists : EditConnectedUsers(cid, list)
    \/ onConnectedUsersChange_Start
    \/ \E i \in 1..Len(tasks) : onConnectedUsersChange_AddGet(i)
    \/ \E i \in 1..Len(tasks) : onConnectedUsersChange_RemoveGet(i)
    \/ \E i \in 1..Len(tasks) : onConnectedUsersChange_Update(i)
    \/ onConnectedUsersChange_Return
    \/ Settle

SpecGrants == InitGrants /\ [][NextGrants]_vars

-----------------------------------------------------------------------------
(* onAssetUpdate: renames that chain or swap *)

\* the renames of the handled change
HandledRenames == assetsToUpdate(assetChange.before, assetChange.after)

\* several assets were renamed, no two of them had the same title, and the new title
\* of one is the old title of another (X -> Y and Y -> Z, or X -> Y and Y -> X)
ChainOrSwap ==
    /\ Len(HandledRenames) >= 2
    /\ \A j, k \in 1..Len(HandledRenames) :
           HandledRenames[j].oldDisplayTitle = HandledRenames[k].oldDisplayTitle => j = k
    /\ \E j, k \in 1..Len(HandledRenames) :
           j # k /\ HandledRenames[j].newDisplayTitle = HandledRenames[k].oldDisplayTitle

\* the batch.update calls the handler queued
HandledOps ==
    QueueUpdates(activitiesBefore, HandledRenames, assetChange.userId,
                 FundOf(assetChange.assetId), ClientNameOf(assetChange.userId))

\* C29: when one update of an asset document renames several assets so that the
\* renames chain or swap, onAssetUpdate rewrites every matching activity exactly once,
\* to the new title of the asset whose old title was the recipient the activity had
\* before the update; no activity is rewritten twice.
C29_ChainedRenamesRewriteOnce ==
    (AssetUpdateDone /\ ChainOrSwap /\ ClientNameOf(assetChange.userId) # "") =>
        LET clientName == ClientNameOf(assetChange.userId)
            renames == HandledRenames
            ops == HandledOps
            written == {ops[k].doc : k \in 1..Len(ops)}
        IN  /\ Cardinality(written) = Len(ops)
            /\ \A i \in 1..Len(activitiesBefore) :
                   LET act == activitiesBefore[i]
                   IN  \A k \in 1..Len(renames) :
                           (/\ act.owner = assetChange.userId
                            /\ act.fund = FundOf(assetChange.assetId)
                            /\ act.recipient =
                                   RecipientOf(renames[k].oldDisplayTitle, clientName))
                               => /\ i \in written
                                  /\ activities[i].recipient =
                                         RecipientOf(renames[k].newDisplayTitle, clientName)

-----------------------------------------------------------------------------
(* AssetFormComponent: the amount input of one asset *)

\* longest text typed into the input
MaxText == 4

\* the characters typed: a digit, the decimal point and the minus sign
TextChars == {"5", ".", "-"}

IsDigit(ch) == ch \in {"0", "1", "2", "3", "4", "5", "6", "7", "8", "9"}

DigitValue(ch) ==
    CASE ch = "0" -> 0 [] ch = "1" -> 1 [] ch = "2" -> 2 [] ch = "3" -> 3 [] ch = "4" -> 4
      [] ch = "5" -> 5 [] ch = "6" -> 6 [] ch = "7" -> 7 [] ch = "8" -> 8 [] ch = "9" -> 9

\* numbers are held in thousandths
Scale == 1000

\* JavaScript values: a number, NaN, undefined
Num(val) == [type |-> "number", val |-> val]
NaN == [type |-> "NaN", val |-> 0]
NoValue == [type |-> "undefined", val |-> 0]

\* /^\d*\.?\d{0,2}$/.test(value)
AmountPattern(value) ==
    \E i \in 0..Len(value), dot \in {0, 1}, j \in 0..2 :
        /\ i + dot + j = Len(value)
        /\ \A k \in 1..i : IsDigit(value[k])
        /\ dot = 1 => value[i + 1] = "."
        /\ \A k \in (i + dot + 1)..Len(value) : IsDigit(value[k])

\* the length of the run of digits of text that begins at place from
DigitRun(text, from) ==
    CHOOSE n \in 0..Len(text) :
        /\ from + n - 1 <= Len(text)
        /\ \A k \in from..(from + n - 1) : IsDigit(text[k])
        /\ (from + n <= Len(text)) => ~IsDigit(text[from + n])

\* the number a run of digits stands for
RECURSIVE DigitsValue(_)
DigitsValue(digits) ==
    IF digits = <<>> THEN 0
    ELSE 10 * DigitsValue(SubSeq(digits, 1, Len(digits) - 1))
             + DigitValue(digits[Len(digits)])

RECURSIVE PowerOfTen(_)
PowerOfTen(n) == IF n = 0 THEN 1 ELSE 10 * PowerOfTen(n - 1)

\* parseFloat(text): the longest prefix that is a decimal literal with an optional
\* sign, or NaN when that prefix has no digit
parseFloat(text) ==
    LET signed == IF text # <<>> /\ text[1] = "-" THEN 1 ELSE 0
        whole == DigitRun(text, signed + 1)
        point == signed + whole + 1
        hasPoint == point <= Len(text) /\ text[point] = "."
        decimals == IF hasPoint THEN DigitRun(text, point + 1) ELSE 0
        wholeValue == DigitsValue(SubSeq(text, signed + 1, signed + whole))
        decimalValue == DigitsValue(SubSeq(text, point + 1, point + decimals))
        magnitude == wholeValue * Scale
                        + (decimalValue * Scale) \div PowerOfTen(decimals)
    IN  IF whole + decimals = 0 THEN NaN
        ELSE Num(IF signed = 1 THEN 0 - magnitude ELSE magnitude)

\* one entry of clientState.assets[fundKey]: an AssetDetails object, or the bare
\* number a handler put in its place (whose fields read as undefined)
AssetDetails(amount, firstDepositDate, displayTitle, index) ==
    [object |-> TRUE, number |-> NoValue, amount |-> amount,
     firstDepositDate |-> firstDepositDate, displayTitle |-> displayTitle, index |-> index]

BareNumber(number) ==
    [object |-> FALSE, number |-> number, amount |-> NoValue,
     firstDepositDate |-> "undefined", displayTitle |-> "undefined", index |-> "undefined"]

\* { ...clientState, assets: { ...clientState.assets,
\*     [fundKey]: { ...clientState.assets[fundKey], [assetType]: entry } } }
WithAsset(client, fundKey, assetType, entry) ==
    [client EXCEPT !.assets[fundKey][assetType] = entry]

\* handleChange of the input of asset assetType of fund fundKey
handleChange(fundKey, assetType, value) ==
    /\ clientState # NoUser
    /\ clientState' = IF AmountPattern(value)
                      THEN WithAsset(clientState, fundKey, assetType,
                                     BareNumber(parseFloat(value)))
                      ELSE clientState
    /\ UNCHANGED <<dbVars, ytdVars, trigVars, clientFormVars, accVars, batchVars, pc,
                   outcome, call, activityState, isRecipientSameAsUser>>

\* handleBlur of the same input
handleBlur(fundKey, assetType, value) ==
    /\ clientState # NoUser
    /\ clientState' = IF value = <<>> \/ parseFloat(value) = NaN
                      THEN WithAsset(clientState, fundKey, assetType, BareNumber(Num(0)))
                      ELSE clientState
    /\ UNCHANGED <<dbVars, ytdVars, trigVars, clientFormVars, accVars, batchVars, pc,
                   outcome, call, activityState, isRecipientSameAsUser>>

-----------------------------------------------------------------------------
(* Specification SpecAssetForm: amounts are typed into the asset inputs of a client *)

\* the inputs rendered: the assets of the funds of the client
AssetInputs == {<<"agq", "personal">>, <<"agq", "ira">>, <<"ak1", "personal">>}

Texts == SeqsUpTo(TextChars, MaxText)

\* the clients shown: the client of emptyClient with an IRA in AGQ, and amounts and a
\* first deposit date as a stored client has them
AssetFormClients ==
    {[cid |-> "c1", firstName |-> "John", lastName |-> "Doe",
      assets |->
          [agq |-> [personal |-> AssetDetails(amount, date, "Personal", "0"),
                    ira |-> AssetDetails(Num(0), "null", "IRA", "1")],
           ak1 |-> [personal |-> AssetDetails(Num(0), "null", "Personal", "0")]]] :
        amount \in {Num(0), Num(5 * Scale)}, date \in {"null", "2024-01-01"}}

\* the form is shown for a client: an AssetFormComponent is rendered for each asset
ShowAssetForm(client) ==
    /\ clientState = NoUser
    /\ clientState' = client
    /\ UNCHANGED <<dbVars, ytdVars, trigVars, clientFormVars, accVars, batchVars, pc,
                   outcome, call, activityState, isRecipientSameAsUser>>

InitAssetForm ==
    /\ users = [c \in Cids |-> NoDoc]
    /\ activities = <<>>
    /\ InitIdle
    /\ InitCaches

NextAssetForm ==
    \/ \E client \in AssetFormClients : ShowAssetForm(client)
    \/ \E input \in AssetInputs, value \in Texts : handleChange(input[1], input[2], value)
    \/ \E input \in AssetInputs, value \in Texts : handleBlur(input[1], input[2], value)

SpecAssetForm == InitAssetForm /\ [][NextAssetForm]_vars

\* C30: editing the amount of an asset (change or blur) changes only the amount of
\* that asset of that fund in the client state: its displayTitle, index and
\* firstDepositDate, every other asset and fund and every other field stay as they
\* were; the stored amount is never negative, and it is 0, not NaN, after the field
\* was left empty and blurred.
C30_EditChangesOnlyTheAmount ==
    [][\A input \in AssetInputs, value \in Texts :
          LET fundKey == input[1]
              assetType == input[2]
              amount == clientState'.assets[fundKey][assetType].amount
          IN  /\ (handleChange(fundKey, assetType, value)
                     \/ handleBlur(fundKey, assetType, value))
                    => /\ clientState' =
                              [clientState EXCEPT !.assets[fundKey][assetType].amount = amount]
                       /\ ~(amount.type = "number" /\ amount.val < 0)
              /\ handleBlur(fundKey, assetType, <<>>) => amount = Num(0)]_vars

====
